---- MODULE Spec2Model ----
(***************************************************************************)
(* Bank-statement import of Budget-pay-API: the import endpoint            *)
(* (app/api/v1/routes/transactions.py), the transaction and category       *)
(* stores it writes (app/crud) and the parsing helpers it calls            *)
(* (app/utils/transactions_import.py).                                     *)
(*                                                                         *)
(* Text is a sequence of one-character strings, so that case folding,      *)
(* trimming and substring search are computed and not assumed.  Python's   *)
(* None is the one-element sequence None for text and the record NoValue   *)
(* for numbers and dates.                                                  *)
(***************************************************************************)
EXTENDS Integers, Sequences, FiniteSets, TLC

None == <<"None">>
NoValue == [k |-> "none"]

----------------------------------------------------------------------------
(* Text primitives: str.lower, str.upper, str.strip, str.replace, `in`.    *)

UpperLetters == <<"A", "B", "C", "D", "E", "F", "G", "H", "I", "J", "K", "L", "M", "N", "O", "P", "Q", "R", "S", "T", "U", "V", "W", "X", "Y", "Z">>
LowerLetters == <<"a", "b", "c", "d", "e", "f", "g", "h", "i", "j", "k", "l", "m", "n", "o", "p", "q", "r", "s", "t", "u", "v", "w", "x", "y", "z">>

IndexIn(c, letters) == CHOOSE i \in 1..Len(letters) : letters[i] = c

Lower(c) ==
    IF \E i \in 1..Len(UpperLetters) : UpperLetters[i] = c
    THEN LowerLetters[IndexIn(c, UpperLetters)] ELSE c

Upper(c) ==
    IF \E i \in 1..Len(LowerLetters) : LowerLetters[i] = c
    THEN UpperLetters[IndexIn(c, LowerLetters)] ELSE c

LowerStr(s) == [i \in 1..Len(s) |-> Lower(s[i])]

UpperStr(s) == [i \in 1..Len(s) |-> Upper(s[i])]

IsSpace(c) == c \in {" ", "\t", "\n"}

RECURSIVE LStrip(_)
LStrip(s) == IF s # <<>> /\ IsSpace(Head(s)) THEN LStrip(Tail(s)) ELSE s

RECURSIVE RStrip(_)
RStrip(s) ==
    IF s # <<>> /\ IsSpace(s[Len(s)]) THEN RStrip(SubSeq(s, 1, Len(s) - 1)) ELSE s

Strip(s) == RStrip(LStrip(s))

StartsWith(s, p) ==
    /\ Len(p) <= Len(s)
    /\ \A j \in 1..Len(p) : s[j] = p[j]

\* `p in s` for strings: p occurs as a contiguous run of s.
Contains(s, p) ==
    \E k \in 0..(Len(s) - Len(p)) : \A j \in 1..Len(p) : s[k + j] = p[j]

\* s.replace(p, "") for a non-empty p: leftmost, non-overlapping.
RECURSIVE Remove(_, _)
Remove(s, p) ==
    IF s = <<>> THEN <<>>
    ELSE IF StartsWith(s, p) THEN Remove(SubSeq(s, Len(p) + 1, Len(s)), p)
    ELSE <<Head(s)>> \o Remove(Tail(s), p)

\* s.split(sep) for a one-character separator.
RECURSIVE Split(_, _)
Split(s, sep) ==
    IF \A i \in 1..Len(s) : s[i] # sep THEN <<s>>
    ELSE LET i == CHOOSE n \in 1..Len(s) :
                      s[n] = sep /\ \A m \in 1..(n - 1) : s[m] # sep
         IN <<SubSeq(s, 1, i - 1)>> \o Split(SubSeq(s, i + 1, Len(s)), sep)

Digits == <<"0", "1", "2", "3", "4", "5", "6", "7", "8", "9">>

IsDigit(c) == \E i \in 1..10 : Digits[i] = c

DigitVal(c) == IndexIn(c, Digits) - 1

AllDigits(s) == s # <<>> /\ \A i \in 1..Len(s) : IsDigit(s[i])

RECURSIVE DigitsVal(_)
DigitsVal(s) ==
    IF s = <<>> THEN 0 ELSE 10 * DigitsVal(SubSeq(s, 1, Len(s) - 1)) + DigitVal(s[Len(s)])

Bom == "\\ufeff"

_normalize(s) == IF s = None THEN None ELSE Remove(LowerStr(Strip(s)), <<Bom>>)

----------------------------------------------------------------------------
(* Numbers.  A Python float is [k |-> "num", v |-> hundredths], or the     *)
(* special values nan and +-inf that float() also accepts.  Amount tokens  *)
(* carry at most two fractional digits.                                    *)

Num(v) == [k |-> "num", v |-> v]
NaN == [k |-> "nan"]
Inf(neg) == [k |-> "inf", neg |-> neg]

\* float(s) of a token without surrounding blanks; NoValue is ValueError.
\* Covered: digits with an optional fraction, nan, inf, infinity.  Exponents
\* and digit-group underscores are not among the tokens used here.
FloatOfUnsigned(s) ==
    IF s \in {<<"n", "a", "n">>} THEN NaN
    ELSE IF s \in {<<"i", "n", "f">>, <<"i", "n", "f", "i", "n", "i", "t", "y">>} THEN Inf(FALSE)
    ELSE LET parts == Split(s, ".") IN
         IF Len(parts) = 1 /\ AllDigits(parts[1]) THEN Num(100 * DigitsVal(parts[1]))
         ELSE IF /\ Len(parts) = 2
                 /\ parts[1] = <<>> \/ AllDigits(parts[1])
                 /\ parts[2] = <<>> \/ AllDigits(parts[2])
                 /\ parts[1] # <<>> \/ parts[2] # <<>>
                 /\ Len(parts[2]) <= 2
              THEN Num(100 * DigitsVal(parts[1])
                       + (IF Len(parts[2]) = 1 THEN 10 ELSE 1) * DigitsVal(parts[2]))
              ELSE NoValue

Negate(f) ==
    CASE f.k = "num" -> Num(0 - f.v)
      [] f.k = "inf" -> Inf(~f.neg)
      [] OTHER -> f

FloatOf(s0) ==
    LET s == Strip(s0) IN
    IF s = <<>> THEN NoValue
    ELSE IF Head(s) = "-" THEN Negate(FloatOfUnsigned(Tail(s)))
    ELSE IF Head(s) = "+" THEN FloatOfUnsigned(Tail(s))
    ELSE FloatOfUnsigned(s)

\* x > 0 and x <= 0 on floats: both are false of nan.
GtZero(f) == (f.k = "num" /\ f.v > 0) \/ (f.k = "inf" /\ ~f.neg)
LeZero(f) == (f.k = "num" /\ f.v <= 0) \/ (f.k = "inf" /\ f.neg)
LtZero(f) == (f.k = "num" /\ f.v < 0) \/ (f.k = "inf" /\ f.neg)

Abs(f) ==
    CASE f.k = "num" -> Num(IF f.v < 0 THEN 0 - f.v ELSE f.v)
      [] f.k = "inf" -> Inf(FALSE)
      [] OTHER -> f

Rupee == "Rs-sign"

_parse_float(value) ==
    IF value = None THEN NoValue
    ELSE LET s == _normalize(value) IN
         IF s \in {<<>>, <<"-">>} THEN NoValue
         ELSE FloatOf(Strip(Remove(Remove(Remove(Remove(s, <<",">>), <<Rupee>>),
                                          <<"r", "s", ".">>), <<"r", "s">>)))

----------------------------------------------------------------------------
(* Dates.  datetime.strptime with the six formats of _parse_date, then     *)
(* datetime.fromisoformat.  A datetime is [k |-> "dt", y, m, d, hh, mi].   *)

MonthNames ==
    << <<"j", "a", "n", "u", "a", "r", "y">>,
       <<"f", "e", "b", "r", "u", "a", "r", "y">>,
       <<"m", "a", "r", "c", "h">>,
       <<"a", "p", "r", "i", "l">>,
       <<"m", "a", "y">>,
       <<"j", "u", "n", "e">>,
       <<"j", "u", "l", "y">>,
       <<"a", "u", "g", "u", "s", "t">>,
       <<"s", "e", "p", "t", "e", "m", "b", "e", "r">>,
       <<"o", "c", "t", "o", "b", "e", "r">>,
       <<"n", "o", "v", "e", "m", "b", "e", "r">>,
       <<"d", "e", "c", "e", "m", "b", "e", "r">> >>

IsLeap(y) == (y % 4 = 0 /\ y % 100 # 0) \/ y % 400 = 0

DaysInMonth(y, m) ==
    IF m = 2 THEN (IF IsLeap(y) THEN 29 ELSE 28)
    ELSE IF m \in {4, 6, 9, 11} THEN 30 ELSE 31

\* datetime(y, m, d): the time of day is zero.  NoValue is ValueError.
MakeDate(y, m, d) ==
    IF y >= 1 /\ m \in 1..12 /\ d >= 1 /\ d <= DaysInMonth(y, m)
    THEN [k |-> "dt", y |-> y, m |-> m, d |-> d, hh |-> 0, mi |-> 0]
    ELSE NoValue

\* The directives' regular expressions: %d is 1..31 and %m is 1..12 in one
\* or two digits, %Y is exactly four digits.
MatchesDay(f) == Len(f) \in {1, 2} /\ AllDigits(f) /\ DigitsVal(f) \in 1..31
MatchesMonth(f) == Len(f) \in {1, 2} /\ AllDigits(f) /\ DigitsVal(f) \in 1..12
MatchesYear(f) == Len(f) = 4 /\ AllDigits(f)

\* %b is the three-letter abbreviation, %B the full name, case-insensitive.
MonthByName(f, full) ==
    LET hit == {i \in 1..12 :
                   LowerStr(f) = (IF full THEN MonthNames[i] ELSE SubSeq(MonthNames[i], 1, 3))}
    IN IF hit = {} THEN 0 ELSE CHOOSE i \in hit : TRUE

\* One strptime format: the separator and the directive of each field.
Strptime(s, fmt) ==
    LET f == Split(s, fmt.sep) IN
    IF Len(f) # 3 THEN NoValue
    ELSE CASE fmt.order = "dmY" ->
                 IF MatchesDay(f[1]) /\ MatchesMonth(f[2]) /\ MatchesYear(f[3])
                 THEN MakeDate(DigitsVal(f[3]), DigitsVal(f[2]), DigitsVal(f[1]))
                 ELSE NoValue
           [] fmt.order = "Ymd" ->
                 IF MatchesYear(f[1]) /\ MatchesMonth(f[2]) /\ MatchesDay(f[3])
                 THEN MakeDate(DigitsVal(f[1]), DigitsVal(f[2]), DigitsVal(f[3]))
                 ELSE NoValue
           [] fmt.order = "mdY" ->
                 IF MatchesMonth(f[1]) /\ MatchesDay(f[2]) /\ MatchesYear(f[3])
                 THEN MakeDate(DigitsVal(f[3]), DigitsVal(f[1]), DigitsVal(f[2]))
                 ELSE NoValue
           [] fmt.order \in {"dbY", "dBY"} ->
                 IF /\ MatchesDay(f[1]) /\ MatchesYear(f[3])
                    /\ MonthByName(f[2], fmt.order = "dBY") # 0
                 THEN MakeDate(DigitsVal(f[3]), MonthByName(f[2], fmt.order = "dBY"),
                               DigitsVal(f[1]))
                 ELSE NoValue

\* Variant: month/day/year is tried before day/month/year.
formats_month_first ==
    << [sep |-> "/", order |-> "mdY"],
       [sep |-> "/", order |-> "dmY"],
       [sep |-> "-", order |-> "dmY"],
       [sep |-> "-", order |-> "Ymd"],
       [sep |-> " ", order |-> "dbY"],
       [sep |-> " ", order |-> "dBY"] >>

formats ==
    << [sep |-> "/", order |-> "dmY"],
       [sep |-> "-", order |-> "dmY"],
       [sep |-> "-", order |-> "Ymd"],
       [sep |-> "/", order |-> "mdY"],
       [sep |-> " ", order |-> "dbY"],
       [sep |-> " ", order |-> "dBY"] >>

\* datetime.fromisoformat: YYYY-MM-DD, alone or followed by one separator
\* character and HH, HH:MM or HH:MM:SS.
\* (Fractional seconds, UTC offsets and the compact forms that newer Python
\* versions also accept are not among the tokens used here.)
TwoDigits(f) == Len(f) = 2 /\ AllDigits(f)

IsoTimeOk(t) ==
    LET f == Split(t, ":") IN
    /\ Len(f) \in {1, 2, 3}
    /\ \A i \in 1..Len(f) : TwoDigits(f[i])
    /\ DigitsVal(f[1]) < 24
    /\ \A i \in 2..Len(f) : DigitsVal(f[i]) < 60

FromIsoFormat(s) ==
    IF Len(s) < 10 THEN NoValue
    ELSE LET f == Split(SubSeq(s, 1, 10), "-") IN
         IF /\ Len(f) = 3 /\ MatchesYear(f[1]) /\ TwoDigits(f[2]) /\ TwoDigits(f[3])
            /\ Len(s) = 10 \/ (Len(s) > 11 /\ IsoTimeOk(SubSeq(s, 12, Len(s))))
         THEN MakeDate(DigitsVal(f[1]), DigitsVal(f[2]), DigitsVal(f[3]))
         ELSE NoValue

\* The first format of the list that parses the token, 0 when none does.
FirstFormat(s) ==
    LET ok == {i \in 1..Len(formats) : Strptime(s, formats[i]) # NoValue}
    IN IF ok = {} THEN 0 ELSE CHOOSE i \in ok : \A j \in ok : i <= j

_parse_date(value) ==
    IF value = None THEN NoValue
    ELSE LET s == Strip(value) IN
         IF FirstFormat(s) # 0 THEN Strptime(s, formats[FirstFormat(s)])
         ELSE FromIsoFormat(s)

----------------------------------------------------------------------------
(* Canonical rows and the per-row helpers of transactions_import.py.       *)

Row(date, description, debit, credit, amount, type, ref) ==
    [date |-> date, description |-> description, debit |-> debit, credit |-> credit,
     amount |-> amount, type |-> type, ref |-> ref]

\* `x or ""`: None and the empty string both give the empty string.
OrEmpty(x) == IF x = None THEN <<>> ELSE x

DebitTypes == {<<"d", "e", "b", "i", "t">>, <<"d", "r">>, <<"d">>}
CreditTypes == {<<"c", "r", "e", "d", "i", "t">>, <<"c", "r">>, <<"c">>}

\* Variant: the credit column is looked at before the debit column.
compute_withdrawal_amount_credit_first(row) ==
    LET debit == _parse_float(row.debit)
        credit == _parse_float(row.credit)
        amount == _parse_float(row.amount)
        tx_type == _normalize(row.type)
    IN IF credit # NoValue /\ GtZero(credit) THEN NoValue
       ELSE IF debit # NoValue /\ GtZero(debit) THEN debit
       ELSE IF amount # NoValue
            THEN IF tx_type \in DebitTypes THEN Abs(amount)
                 ELSE IF tx_type \in CreditTypes THEN NoValue
                 ELSE IF LtZero(amount) THEN Abs(amount)
                 ELSE NoValue
       ELSE NoValue

\* Variant: the type column is not consulted, the sign alone decides.
compute_withdrawal_amount_by_sign_only(row) ==
    LET debit == _parse_float(row.debit)
        credit == _parse_float(row.credit)
        amount == _parse_float(row.amount)
    IN IF debit # NoValue /\ GtZero(debit) THEN debit
       ELSE IF credit # NoValue /\ GtZero(credit) THEN NoValue
       ELSE IF amount # NoValue /\ LtZero(amount) THEN Abs(amount)
       ELSE NoValue

\* Variant: a positive credit is returned as the amount.
compute_withdrawal_amount_taking_credit(row) ==
    LET debit == _parse_float(row.debit)
        credit == _parse_float(row.credit)
        amount == _parse_float(row.amount)
        tx_type == _normalize(row.type)
    IN IF debit # NoValue /\ GtZero(debit) THEN debit
       ELSE IF credit # NoValue /\ GtZero(credit) THEN credit
       ELSE IF amount # NoValue
            THEN IF tx_type \in DebitTypes THEN Abs(amount)
                 ELSE IF tx_type \in CreditTypes THEN NoValue
                 ELSE IF LtZero(amount) THEN Abs(amount)
                 ELSE NoValue
       ELSE NoValue

compute_withdrawal_amount(row) ==
    LET debit == _parse_float(row.debit)
        credit == _parse_float(row.credit)
        amount == _parse_float(row.amount)
        tx_type == _normalize(row.type)
    IN IF debit # NoValue /\ GtZero(debit) THEN debit
       ELSE IF credit # NoValue /\ GtZero(credit) THEN NoValue
       ELSE IF amount # NoValue
            THEN IF tx_type \in DebitTypes THEN Abs(amount)
                 ELSE IF tx_type \in CreditTypes THEN NoValue
                 ELSE IF LtZero(amount) THEN Abs(amount)
                 ELSE NoValue
       ELSE NoValue

RefPrefix == <<"R", "e", "f", ":", " ">>
Placeholder == <<"T", "r", "a", "n", "s", "a", "c", "t", "i", "o", "n">>

build_description(row) ==
    LET base == Strip(OrEmpty(row.description))
        ref == Strip(OrEmpty(row.ref))
    IN IF ref # <<>>
       THEN IF base # <<>> THEN base \o <<" ", "(">> \o RefPrefix \o ref \o <<")">>
            ELSE RefPrefix \o ref
       ELSE IF base # <<>> THEN base ELSE Placeholder

\* The keyword table in definition order: <<keyword, category name>>.
DEFAULT_KEYWORD_TO_CATEGORY ==
    <<
        <<<<"z", "o", "m", "a", "t", "o">>, <<"F", "o", "o", "d", " ", "&", " ", "D", "i", "n", "i", "n", "g">>>>,
        <<<<"s", "w", "i", "g", "g", "y">>, <<"F", "o", "o", "d", " ", "&", " ", "D", "i", "n", "i", "n", "g">>>>,
        <<<<"r", "e", "s", "t", "a", "u", "r", "a", "n", "t">>, <<"F", "o", "o", "d", " ", "&", " ", "D", "i", "n", "i", "n", "g">>>>,
        <<<<"c", "a", "f", "e">>, <<"F", "o", "o", "d", " ", "&", " ", "D", "i", "n", "i", "n", "g">>>>,
        <<<<"c", "o", "f", "f", "e", "e">>, <<"F", "o", "o", "d", " ", "&", " ", "D", "i", "n", "i", "n", "g">>>>,
        <<<<"f", "o", "o", "d">>, <<"F", "o", "o", "d", " ", "&", " ", "D", "i", "n", "i", "n", "g">>>>,
        <<<<"g", "r", "o", "c", "e", "r", "y">>, <<"G", "r", "o", "c", "e", "r", "i", "e", "s">>>>,
        <<<<"s", "u", "p", "e", "r", "m", "a", "r", "k", "e", "t">>, <<"G", "r", "o", "c", "e", "r", "i", "e", "s">>>>,
        <<<<"a", "m", "a", "z", "o", "n">>, <<"S", "h", "o", "p", "p", "i", "n", "g">>>>,
        <<<<"f", "l", "i", "p", "k", "a", "r", "t">>, <<"S", "h", "o", "p", "p", "i", "n", "g">>>>,
        <<<<"m", "y", "n", "t", "r", "a">>, <<"S", "h", "o", "p", "p", "i", "n", "g">>>>,
        <<<<"p", "e", "t", "r", "o", "l">>, <<"T", "r", "a", "n", "s", "p", "o", "r", "t">>>>,
        <<<<"d", "i", "e", "s", "e", "l">>, <<"T", "r", "a", "n", "s", "p", "o", "r", "t">>>>,
        <<<<"f", "u", "e", "l">>, <<"T", "r", "a", "n", "s", "p", "o", "r", "t">>>>,
        <<<<"o", "l", "a">>, <<"T", "r", "a", "n", "s", "p", "o", "r", "t">>>>,
        <<<<"u", "b", "e", "r">>, <<"T", "r", "a", "n", "s", "p", "o", "r", "t">>>>,
        <<<<"m", "e", "t", "r", "o">>, <<"T", "r", "a", "n", "s", "p", "o", "r", "t">>>>,
        <<<<"b", "u", "s">>, <<"T", "r", "a", "n", "s", "p", "o", "r", "t">>>>,
        <<<<"t", "r", "a", "i", "n">>, <<"T", "r", "a", "v", "e", "l">>>>,
        <<<<"i", "r", "c", "t", "c">>, <<"T", "r", "a", "v", "e", "l">>>>,
        <<<<"a", "i", "r">>, <<"T", "r", "a", "v", "e", "l">>>>,
        <<<<"a", "i", "r", "a", "s", "i", "a">>, <<"T", "r", "a", "v", "e", "l">>>>,
        <<<<"i", "n", "d", "i", "g", "o">>, <<"T", "r", "a", "v", "e", "l">>>>,
        <<<<"s", "p", "i", "c", "e", "j", "e", "t">>, <<"T", "r", "a", "v", "e", "l">>>>,
        <<<<"h", "o", "t", "e", "l">>, <<"T", "r", "a", "v", "e", "l">>>>,
        <<<<"r", "e", "n", "t">>, <<"R", "e", "n", "t">>>>,
        <<<<"e", "l", "e", "c", "t", "r", "i", "c", "i", "t", "y">>, <<"U", "t", "i", "l", "i", "t", "i", "e", "s">>>>,
        <<<<"w", "a", "t", "e", "r">>, <<"U", "t", "i", "l", "i", "t", "i", "e", "s">>>>,
        <<<<"i", "n", "t", "e", "r", "n", "e", "t">>, <<"U", "t", "i", "l", "i", "t", "i", "e", "s">>>>,
        <<<<"b", "r", "o", "a", "d", "b", "a", "n", "d">>, <<"U", "t", "i", "l", "i", "t", "i", "e", "s">>>>,
        <<<<"m", "o", "b", "i", "l", "e">>, <<"U", "t", "i", "l", "i", "t", "i", "e", "s">>>>,
        <<<<"p", "r", "e", "p", "a", "i", "d">>, <<"U", "t", "i", "l", "i", "t", "i", "e", "s">>>>,
        <<<<"p", "o", "s", "t", "p", "a", "i", "d">>, <<"U", "t", "i", "l", "i", "t", "i", "e", "s">>>>,
        <<<<"d", "t", "h">>, <<"U", "t", "i", "l", "i", "t", "i", "e", "s">>>>,
        <<<<"i", "n", "s", "u", "r", "a", "n", "c", "e">>, <<"I", "n", "s", "u", "r", "a", "n", "c", "e">>>>,
        <<<<"l", "i", "c">>, <<"I", "n", "s", "u", "r", "a", "n", "c", "e">>>>,
        <<<<"h", "e", "a", "l", "t", "h">>, <<"H", "e", "a", "l", "t", "h", "c", "a", "r", "e">>>>,
        <<<<"h", "o", "s", "p", "i", "t", "a", "l">>, <<"H", "e", "a", "l", "t", "h", "c", "a", "r", "e">>>>,
        <<<<"p", "h", "a", "r", "m", "a", "c", "y">>, <<"H", "e", "a", "l", "t", "h", "c", "a", "r", "e">>>>,
        <<<<"m", "e", "d", "i", "c", "a", "l">>, <<"H", "e", "a", "l", "t", "h", "c", "a", "r", "e">>>>,
        <<<<"d", "o", "c", "t", "o", "r">>, <<"H", "e", "a", "l", "t", "h", "c", "a", "r", "e">>>>,
        <<<<"p", "h", "a", "r", "m", "e", "a", "s", "y">>, <<"H", "e", "a", "l", "t", "h", "c", "a", "r", "e">>>>,
        <<<<"1", "m", "g">>, <<"H", "e", "a", "l", "t", "h", "c", "a", "r", "e">>>>,
        <<<<"u", "p", "i">>, <<"T", "r", "a", "n", "s", "f", "e", "r", "s">>>>,
        <<<<"i", "m", "p", "s">>, <<"T", "r", "a", "n", "s", "f", "e", "r", "s">>>>,
        <<<<"n", "e", "f", "t">>, <<"T", "r", "a", "n", "s", "f", "e", "r", "s">>>>,
        <<<<"r", "t", "g", "s">>, <<"T", "r", "a", "n", "s", "f", "e", "r", "s">>>>,
        <<<<"a", "t", "m">>, <<"C", "a", "s", "h", " ", "W", "i", "t", "h", "d", "r", "a", "w", "a", "l">>>>,
        <<<<"c", "a", "s", "h">>, <<"C", "a", "s", "h", " ", "W", "i", "t", "h", "d", "r", "a", "w", "a", "l">>>>
    >>

\* The first of a set of positions of a list, 0 when the set is empty: the
\* position at which a `for` loop with an early return stops.
FirstOf(positions) ==
    IF positions = {} THEN 0 ELSE CHOOSE i \in positions : \A j \in positions : i <= j

\* Lines 437-439: the category of the first keyword, in table order, that
\* occurs in the normalized text; None when no keyword occurs.
keyword_category(text) ==
    LET k == FirstOf({i \in 1..Len(DEFAULT_KEYWORD_TO_CATEGORY) :
                         Contains(text, DEFAULT_KEYWORD_TO_CATEGORY[i][1])})
    IN IF k # 0 THEN DEFAULT_KEYWORD_TO_CATEGORY[k][2] ELSE None

\* Lines 442-444: the first of the user's names that occurs in the text.
category_name_in_text(text, user_category_names) ==
    LET n == FirstOf({i \in 1..Len(user_category_names) :
                         /\ user_category_names[i] # <<>>
                         /\ Contains(text, _normalize(user_category_names[i]))})
    IN IF n # 0 THEN user_category_names[n] ELSE None

\* Variant: the user's category names are tried before the keyword table.
choose_with_names_first(text, by_keyword, user_category_names) ==
    IF text = <<>> THEN None
    ELSE IF category_name_in_text(text, user_category_names) # None
         THEN category_name_in_text(text, user_category_names)
    ELSE by_keyword

\* The classifier, given the keyword scan's answer for the text.
choose_with(text, by_keyword, user_category_names) ==
    IF text = <<>> THEN None
    ELSE IF by_keyword # None THEN by_keyword
    ELSE category_name_in_text(text, user_category_names)

choose_category_name_from_keywords(description, user_category_names) ==
    LET text == _normalize(OrEmpty(description))
    IN choose_with(text, keyword_category(text), user_category_names)

----------------------------------------------------------------------------
(* The stores (app/crud) and the import request                            *)
(* (import_transactions_from_statement).                                   *)

MaxRows == 2   \* rows of an uploaded statement
MaxSeed == 1   \* records created through the plain create endpoints

VARIABLES
    transactions,         \* the transactions table, in insertion order
    categories,           \* the categories table; a category's id is its index
    pc,                   \* where the import request stands
    request,              \* the upload: user, file and the two form flags
    rows,                 \* the canonical rows the adapter returned
    idx,                  \* the row the loop is at
    user_category_names,  \* local list of the user's category names
    tx_inputs,            \* accepted candidates, not yet written
    skipped_reasons,      \* reasons of the rows rejected so far
    response,             \* what the request returned
    before,               \* both tables as they were when the request started
    row_outcomes,         \* history: what the loop did with each row
    bulk_calls,           \* history: the batches handed to the bulk write
    previous,             \* history: the preceding import of the same session
    call,                 \* a helper applied on its own: its name, input and result
    second                \* a second request for the same file, running meanwhile

vars == <<transactions, categories, pc, request, rows, idx, user_category_names,
          tx_inputs, skipped_reasons, response, before, row_outcomes, bulk_calls,
          previous, call, second>>

\* The variables of the import request and of the two stores.
import_vars == <<transactions, categories, pc, request, rows, idx, user_category_names,
                 tx_inputs, skipped_reasons, response, before, row_outcomes, bulk_calls,
                 previous, second>>

Users == {"u1", "u2"}
CurrentUser == "u1"

NotAWithdrawal == "Not a withdrawal or amount missing"
InvalidDate == "Invalid date"
Duplicate == "Duplicate transaction"
NoDataRows == "No data rows found"
Accepted == "accepted"
MultipleResultsFound == "MultipleResultsFound"

\* Result.scalar_one_or_none() over the ids a query selects: the row, none,
\* or MultipleResultsFound when the query selects two rows or more.
scalar_one_or_none(ids) ==
    IF ids = {} THEN [k |-> "none"]
    ELSE IF Cardinality(ids) = 1 THEN [k |-> "one", id |-> CHOOSE i \in ids : TRUE]
    ELSE [k |-> "raise"]

get_categories_for_user(user_id, cats) ==
    SelectSeq(cats, LAMBDA c : c.user_id = user_id)

RECURSIVE Names(_)
Names(cats) == IF cats = <<>> THEN <<>> ELSE <<Head(cats).name>> \o Names(Tail(cats))

get_category_by_name_for_user(name, user_id, cats) ==
    scalar_one_or_none({i \in 1..Len(cats) :
        cats[i].user_id = user_id /\ LowerStr(cats[i].name) = LowerStr(name)})

transaction_exists(user_id, description, amount, transaction_date, txs) ==
    scalar_one_or_none({i \in 1..Len(txs) :
        /\ txs[i].user_id = user_id
        /\ LowerStr(txs[i].description) = LowerStr(description)
        /\ txs[i].amount = amount
        /\ txs[i].transaction_date = transaction_date})

Transaction(tx_in, user_id) ==
    [user_id |-> user_id, description |-> tx_in.description, amount |-> tx_in.amount,
     category_id |-> tx_in.category_id, transaction_date |-> tx_in.transaction_date]

RECURSIVE NewInstances(_, _)
NewInstances(inputs, user_id) ==
    IF inputs = <<>> THEN <<>>
    ELSE <<Transaction(Head(inputs), user_id)>> \o NewInstances(Tail(inputs), user_id)

RECURSIVE Reverse(_)
Reverse(q) == IF q = <<>> THEN <<>> ELSE Append(Reverse(Tail(q)), Head(q))

\* Variant: the batch is inserted and returned last row first.
bulk_create_reversed(user_id, inputs, txs) ==
    [created |-> Reverse(NewInstances(inputs, user_id)),
     table |-> txs \o Reverse(NewInstances(inputs, user_id))]

RECURSIVE WithoutRepeats(_)
WithoutRepeats(q) ==
    IF q = <<>> THEN <<>>
    ELSE LET front == WithoutRepeats(SubSeq(q, 1, Len(q) - 1))
         IN IF \E i \in 1..Len(front) : front[i] = q[Len(q)] THEN front
            ELSE Append(front, q[Len(q)])

\* Variant: a candidate that repeats an earlier one of the batch is dropped.
bulk_create_without_repeats(user_id, inputs, txs) ==
    [created |-> NewInstances(WithoutRepeats(inputs), user_id),
     table |-> txs \o NewInstances(WithoutRepeats(inputs), user_id)]

\* The table after the bulk insert; the instances come back in the order given.
bulk_create_transactions_for_user(user_id, inputs, txs) ==
    [created |-> NewInstances(inputs, user_id),
     table |-> txs \o NewInstances(inputs, user_id)]

\* Variant: the date is checked before the amount.
row_verdict_date_first(amount, dt, existing, found, skip_duplicates) ==
    IF dt = NoValue THEN InvalidDate
    ELSE IF amount = NoValue \/ LeZero(amount) THEN NotAWithdrawal
    ELSE IF existing.k = "raise" THEN MultipleResultsFound
    ELSE IF skip_duplicates /\ found.k = "raise" THEN MultipleResultsFound
    ELSE IF skip_duplicates /\ found.k = "one" THEN Duplicate
    ELSE Accepted

\* Variant: a row whose date did not parse is not rejected.
row_verdict_without_date_check(amount, dt, existing, found, skip_duplicates) ==
    IF amount = NoValue \/ LeZero(amount) THEN NotAWithdrawal
    ELSE IF existing.k = "raise" THEN MultipleResultsFound
    ELSE IF skip_duplicates /\ found.k = "raise" THEN MultipleResultsFound
    ELSE IF skip_duplicates /\ found.k = "one" THEN Duplicate
    ELSE Accepted

\* The order of the loop's checks on one row, given what each step found.
row_verdict(amount, dt, existing, found, skip_duplicates) ==
    IF amount = NoValue \/ LeZero(amount) THEN NotAWithdrawal
    ELSE IF dt = NoValue THEN InvalidDate
    ELSE IF existing.k = "raise" THEN MultipleResultsFound
    ELSE IF skip_duplicates /\ found.k = "raise" THEN MultipleResultsFound
    ELSE IF skip_duplicates /\ found.k = "one" THEN Duplicate
    ELSE Accepted

\* Variant: the create_missing_categories flag is not consulted.
creates_category_ignoring_flag(verdict, chosen, existing, create_missing_categories) ==
    /\ verdict \notin {NotAWithdrawal, InvalidDate}
    /\ chosen
    /\ existing.k = "none"

\* Lines 177-180: the loop creates a category when the row got past the two
\* early `continue`s, a name was chosen, no category of the user has it and
\* the caller asked for missing categories; this precedes the duplicate check.
creates_category(verdict, chosen, existing, create_missing_categories) ==
    /\ verdict \notin {NotAWithdrawal, InvalidDate}
    /\ chosen
    /\ existing.k = "none"
    /\ create_missing_categories

\* What lines 150, 164-167, 172 and 175 compute from the row alone.
row_facts(r) ==
    [amount |-> compute_withdrawal_amount(r),
     dt |-> IF r.date # None /\ r.date # <<>> THEN _parse_date(r.date) ELSE NoValue,
     description |-> build_description(r),
     text |-> _normalize(build_description(r)),
     by_keyword |-> keyword_category(_normalize(build_description(r)))]

\* One pass of the loop body over row r, f being row_facts(r).
import_row_with(f, user_id, create_missing_categories, skip_duplicates, names, txs, cats) ==
    LET chosen_name == choose_with(f.text, f.by_keyword, names)
        chosen == chosen_name # None /\ chosen_name # <<>>
        existing == IF chosen THEN get_category_by_name_for_user(chosen_name, user_id, cats)
                    ELSE [k |-> "none"]
        found == transaction_exists(user_id, f.description, f.amount, f.dt, txs)
        verdict == row_verdict(f.amount, f.dt, existing, found, skip_duplicates)
        creates == creates_category(verdict, chosen, existing, create_missing_categories)
        category_id == IF creates THEN Len(cats) + 1
                       ELSE IF existing.k = "one" THEN existing.id ELSE 0
    IN [verdict |-> verdict,
        new_category |-> IF creates THEN chosen_name ELSE None,
        candidate |-> IF verdict = Accepted
                      THEN [description |-> f.description, amount |-> f.amount,
                            category_id |-> category_id, transaction_date |-> f.dt]
                      ELSE NoValue]

----------------------------------------------------------------------------
(* Inputs: statement rows, uploaded files, and records created through     *)
(* POST /transactions and POST /categories.                                *)

Zomato == <<"U", "P", "I", "-", "Z", "O", "M", "A", "T", "O", "-", "1", "2", "3">>
ZomatoLower == <<"u", "p", "i", "-", "z", "o", "m", "a", "t", "o", "-", "1", "2", "3">>
RentText == <<"R", "e", "n", "t">>
Jan31 == <<"3", "1", "/", "0", "1", "/", "2", "0", "2", "4">>
Jan31Iso == <<"2", "0", "2", "4", "-", "0", "1", "-", "3", "1", " ", "0", "0", ":", "0", "0", ":", "0", "0">>
BadDate == <<"2", "0", "2", "4", "-", "1", "3", "-", "4", "0">>

RowCatalogue ==
    { Row(Jan31, Zomato, <<"5", "0", "0">>, None, None, None, None),
      Row(Jan31Iso, ZomatoLower, None, None, <<"-", "5", "0", "0">>, None, None),
      Row(Jan31, Zomato, <<"7", "0", "0", ".", "0", "0">>, None, None, None, None),
      Row(Jan31, Zomato, None, None, <<"n", "a", "n">>, <<"D", "R">>, None),
      Row(BadDate, RentText, <<"1", ",", "2", "0", "0", ".", "5", "0">>, None, None, None, None),
      Row(BadDate, RentText, None, <<"5", "0", "0">>, None, None, None),
      Row(None, RentText, <<"5", "0", "0">>, <<>>, None, None, <<"N", "4", "2">>) }

\* row_facts of every catalogue row, evaluated once.
RowFacts == [r \in RowCatalogue |-> row_facts(r)]

import_row(r, user_id, create_missing_categories, skip_duplicates, names, txs, cats) ==
    import_row_with(RowFacts[r], user_id, create_missing_categories, skip_duplicates,
                    names, txs, cats)

RECURSIVE SeqsUpTo(_, _)
SeqsUpTo(S, n) ==
    IF n = 0 THEN {<<>>}
    ELSE SeqsUpTo(S, n - 1) \cup
         {Append(s, x) : s \in {q \in SeqsUpTo(S, n - 1) : Len(q) = n - 1}, x \in S}

\* An upload either cannot be opened by the adapter or holds a table of rows.
Files ==
    {[readable |-> FALSE, table |-> <<>>]} \cup
    {[readable |-> TRUE, table |-> t] : t \in SeqsUpTo(RowCatalogue, MaxRows)}

Date(y, m, d) == [k |-> "dt", y |-> y, m |-> m, d |-> d, hh |-> 0, mi |-> 0]

TransactionCreates ==
    { [description |-> Zomato, amount |-> Num(50000), category_id |-> 0,
       transaction_date |-> Date(2024, 1, 31)],
      [description |-> Zomato, amount |-> Num(50000), category_id |-> 0,
       transaction_date |-> Date(2024, 2, 1)],
      [description |-> RentText, amount |-> Num(50000), category_id |-> 0,
       transaction_date |-> Date(2024, 1, 31)] }

CategoryCreates == { <<"f", "o", "o", "d", " ", "&", " ", "d", "i", "n", "i", "n", "g">> }

----------------------------------------------------------------------------
(* Actions.                                                                *)

Init ==
    /\ transactions = <<>>
    /\ categories = <<>>
    /\ pc = "idle"
    /\ request = NoValue
    /\ rows = <<>>
    /\ idx = 0
    /\ user_category_names = <<>>
    /\ tx_inputs = <<>>
    /\ skipped_reasons = <<>>
    /\ response = NoValue
    /\ before = NoValue
    /\ row_outcomes = <<>>
    /\ bulk_calls = <<>>
    /\ previous = NoValue
    /\ call = NoValue
    /\ second = NoValue

Seeded == Len(transactions) + Len(categories)

\* POST /transactions
create_transaction ==
    /\ pc = "idle"
    /\ Seeded < MaxSeed
    /\ \E user_id \in Users, tx_in \in TransactionCreates :
          transactions' = Append(transactions, Transaction(tx_in, user_id))
    /\ UNCHANGED <<categories, pc, request, rows, idx, user_category_names, tx_inputs,
                   skipped_reasons, response, before, row_outcomes, bulk_calls, previous,
                   call, second>>

\* POST /categories
create_category ==
    /\ pc = "idle"
    /\ Seeded < MaxSeed
    /\ \E user_id \in Users, name \in CategoryCreates :
          categories' = Append(categories, [user_id |-> user_id, name |-> name])
    /\ UNCHANGED <<transactions, pc, request, rows, idx, user_category_names, tx_inputs,
                   skipped_reasons, response, before, row_outcomes, bulk_calls, previous,
                   call, second>>

\* The adapter call of lines 127-139: the rows, or an exception.
parse_bank_statement(file) ==
    IF file.readable THEN [raised |-> FALSE, rows |-> file.table]
    ELSE [raised |-> TRUE, rows |-> <<>>]

\* Variant: a parse failure is answered like an empty statement.
parse_failure_response_as_result ==
    [status |-> 200, created_count |-> 0, skipped_count |-> 0, created |-> <<>>,
     skipped_reasons |-> <<NoDataRows>>]

\* What the request answers when the adapter raises.
parse_failure_response ==
    [status |-> 400, created_count |-> 0, skipped_count |-> 0, created |-> <<>>,
     skipped_reasons |-> <<>>]

\* Variant: the generic reason is counted as a skipped row.
no_rows_response_counting_reason ==
    [status |-> 200, created_count |-> 0, skipped_count |-> 1, created |-> <<>>,
     skipped_reasons |-> <<NoDataRows>>]

\* What the request answers when the adapter returns no rows.
no_rows_response ==
    [status |-> 200, created_count |-> 0, skipped_count |-> 0, created |-> <<>>,
     skipped_reasons |-> <<NoDataRows>>]

\* Lines 118-147: read and parse the upload, answer at once when it has no
\* rows, otherwise load the user's category names and enter the loop.
Begin(user_id, file, create_missing_categories, skip_duplicates) ==
    LET parsed == parse_bank_statement(file) IN
    /\ request' = [user_id |-> user_id, file |-> file,
                   create_missing_categories |-> create_missing_categories,
                   skip_duplicates |-> skip_duplicates]
    /\ before' = [transactions |-> transactions, categories |-> categories]
    /\ rows' = parsed.rows
    /\ tx_inputs' = <<>>
    /\ skipped_reasons' = <<>>
    /\ row_outcomes' = <<>>
    /\ bulk_calls' = <<>>
    /\ IF parsed.raised
       THEN /\ pc' = "failed"
            /\ response' = parse_failure_response
            /\ idx' = 0
            /\ user_category_names' = <<>>
       ELSE IF parsed.rows = <<>>
       THEN /\ pc' = "done"
            /\ response' = no_rows_response
            /\ idx' = 0
            /\ user_category_names' = <<>>
       ELSE /\ pc' = "loop"
            /\ response' = NoValue
            /\ idx' = 1
            /\ user_category_names' = Names(get_categories_for_user(user_id, categories))
    /\ UNCHANGED <<transactions, categories>>

\* POST /transactions/import
StartImport ==
    /\ pc = "idle"
    /\ \E file \in Files, cm \in BOOLEAN, sd \in BOOLEAN : Begin(CurrentUser, file, cm, sd)
    /\ UNCHANGED <<previous, call, second>>

\* The same user uploads the same file once more after the first request ended.
Reimport ==
    /\ pc \in {"done", "failed", "aborted"}
    /\ previous = NoValue
    /\ previous' = [request |-> request, pc |-> pc, response |-> response,
                    row_outcomes |-> row_outcomes,
                    after |-> [transactions |-> transactions, categories |-> categories]]
    /\ \E cm \in BOOLEAN, sd \in BOOLEAN : Begin(request.user_id, request.file, cm, sd)
    /\ UNCHANGED <<call, second>>

\* Lines 149-190: one iteration of the row loop.
ProcessRow ==
    /\ pc = "loop"
    /\ LET o == import_row(rows[idx], request.user_id, request.create_missing_categories,
                           request.skip_duplicates, user_category_names, transactions,
                           categories)
       IN /\ row_outcomes' = Append(row_outcomes, o)
          /\ IF o.new_category # None
             THEN /\ categories' = Append(categories, [user_id |-> request.user_id,
                                                       name |-> o.new_category])
                  /\ user_category_names' = Append(user_category_names, o.new_category)
             ELSE UNCHANGED <<categories, user_category_names>>
          /\ IF o.verdict = MultipleResultsFound
             THEN /\ pc' = "failed"
                  /\ response' = [status |-> 500, created_count |-> 0, skipped_count |-> 0,
                                  created |-> <<>>, skipped_reasons |-> <<>>]
                  /\ UNCHANGED <<idx, tx_inputs, skipped_reasons>>
             ELSE /\ pc' = IF idx = Len(rows) THEN "bulk" ELSE "loop"
                  /\ idx' = idx + 1
                  /\ response' = response
                  /\ IF o.verdict = Accepted
                     THEN /\ tx_inputs' = Append(tx_inputs, o.candidate)
                          /\ UNCHANGED skipped_reasons
                     ELSE /\ skipped_reasons' = Append(skipped_reasons, o.verdict)
                          /\ UNCHANGED tx_inputs
    /\ UNCHANGED <<transactions, request, rows, before, bulk_calls, previous, call, second>>

\* Variant: each reason is put in front of the list instead of at its end.
import_result_reasons_reversed(created, reasons) ==
    [status |-> 200, created_count |-> Len(created), skipped_count |-> Len(reasons),
     created |-> created, skipped_reasons |-> Reverse(reasons)]

\* The result of lines 194-200.
import_result(created, reasons) ==
    [status |-> 200, created_count |-> Len(created), skipped_count |-> Len(reasons),
     created |-> created, skipped_reasons |-> reasons]

\* Lines 192-200: the bulk write and the result.
BulkCreate ==
    /\ pc = "bulk"
    /\ LET w == bulk_create_transactions_for_user(request.user_id, tx_inputs, transactions)
       IN /\ transactions' = w.table
          /\ response' = import_result(w.created, skipped_reasons)
    /\ bulk_calls' = Append(bulk_calls, tx_inputs)
    /\ pc' = "done"
    /\ UNCHANGED <<categories, request, rows, idx, user_category_names, tx_inputs,
                   skipped_reasons, before, row_outcomes, previous, call, second>>

\* The client drops the connection and the request is cancelled where it stands.
Abort ==
    /\ pc \in {"loop", "bulk"}
    /\ pc' = "aborted"
    /\ UNCHANGED <<transactions, categories, request, rows, idx, user_category_names,
                   tx_inputs, skipped_reasons, response, before, row_outcomes, bulk_calls,
                   previous, call, second>>

Next ==
    \/ create_transaction
    \/ create_category
    \/ StartImport
    \/ ProcessRow
    \/ BulkCreate
    \/ Abort

Spec == Init /\ [][Next]_vars

NextReimport == Next \/ Reimport

SpecReimport == Init /\ [][NextReimport]_vars

\* POST /transactions/import once more, by the same user with the same file
\* and skip_duplicates set, while the first request is under way: the
\* handler runs again on the same session of tables, with its own locals.
SecondStart ==
    /\ pc \in {"loop", "bulk"}
    /\ request.skip_duplicates
    /\ second = NoValue
    /\ \E cm \in BOOLEAN :
          second' = [pc |-> "loop", idx |-> 1, create_missing_categories |-> cm,
                     user_category_names |->
                         Names(get_categories_for_user(request.user_id, categories)),
                     tx_inputs |-> <<>>, skipped_reasons |-> <<>>, response |-> NoValue]
    /\ UNCHANGED <<transactions, categories, pc, request, rows, idx, user_category_names,
                   tx_inputs, skipped_reasons, response, before, row_outcomes, bulk_calls,
                   previous, call>>

\* Lines 149-190 in the second request: one iteration of its row loop.
SecondProcessRow ==
    /\ second # NoValue
    /\ second.pc = "loop"
    /\ LET o == import_row(rows[second.idx], request.user_id,
                           second.create_missing_categories, TRUE,
                           second.user_category_names, transactions, categories)
           names == IF o.new_category # None
                    THEN Append(second.user_category_names, o.new_category)
                    ELSE second.user_category_names
       IN /\ categories' = IF o.new_category # None
                           THEN Append(categories, [user_id |-> request.user_id,
                                                    name |-> o.new_category])
                           ELSE categories
          /\ second' =
                IF o.verdict = MultipleResultsFound
                THEN [second EXCEPT !.pc = "failed", !.user_category_names = names,
                         !.response = [status |-> 500, created_count |-> 0,
                                       skipped_count |-> 0, created |-> <<>>,
                                       skipped_reasons |-> <<>>]]
                ELSE [second EXCEPT
                         !.pc = IF second.idx = Len(rows) THEN "bulk" ELSE "loop",
                         !.idx = second.idx + 1,
                         !.user_category_names = names,
                         !.tx_inputs = IF o.verdict = Accepted
                                       THEN Append(second.tx_inputs, o.candidate)
                                       ELSE second.tx_inputs,
                         !.skipped_reasons = IF o.verdict = Accepted
                                             THEN second.skipped_reasons
                                             ELSE Append(second.skipped_reasons, o.verdict)]
    /\ UNCHANGED <<transactions, pc, request, rows, idx, user_category_names, tx_inputs,
                   skipped_reasons, response, before, row_outcomes, bulk_calls, previous,
                   call>>

\* Lines 192-200 in the second request: its bulk write and its result.
SecondBulkCreate ==
    /\ second # NoValue
    /\ second.pc = "bulk"
    /\ LET w == bulk_create_transactions_for_user(request.user_id, second.tx_inputs,
                                                  transactions)
       IN /\ transactions' = w.table
          /\ second' = [second EXCEPT !.pc = "done",
                           !.response = import_result(w.created, second.skipped_reasons)]
    /\ UNCHANGED <<categories, pc, request, rows, idx, user_category_names, tx_inputs,
                   skipped_reasons, response, before, row_outcomes, bulk_calls, previous,
                   call>>

NextConcurrent == Next \/ SecondStart \/ SecondProcessRow \/ SecondBulkCreate

SpecConcurrent == Init /\ [][NextConcurrent]_vars

----------------------------------------------------------------------------
(* Header matching of the three adapters.  A header is the list of the     *)
(* header row's cells; a column index is Python's, counted from 0, as      *)
(* Index(i), and NoValue when the field has no column.                     *)

Index(i) == [k |-> "int", i |-> i]

\* Variant: the substring pass runs before the exact pass.
_find_column_contains_first(header, candidates) ==
    LET normalized == [i \in 1..Len(header) |-> _normalize(header[i])]
        exact == FirstOf({i \in 1..Len(header) :
                     \E c \in 1..Len(candidates) : candidates[c] = normalized[i]})
        contains == FirstOf({i \in 1..Len(header) :
                        \E c \in 1..Len(candidates) : Contains(normalized[i], candidates[c])})
    IN IF contains # 0 THEN Index(contains - 1)
       ELSE IF exact # 0 THEN Index(exact - 1)
       ELSE NoValue

\* The first column equal to a candidate; failing that, the first column
\* that contains one; failing that, None.
_find_column(header, candidates) ==
    LET normalized == [i \in 1..Len(header) |-> _normalize(header[i])]
        exact == FirstOf({i \in 1..Len(header) :
                     \E c \in 1..Len(candidates) : candidates[c] = normalized[i]})
        contains == FirstOf({i \in 1..Len(header) :
                        \E c \in 1..Len(candidates) : Contains(normalized[i], candidates[c])})
    IN IF exact # 0 THEN Index(exact - 1)
       ELSE IF contains # 0 THEN Index(contains - 1)
       ELSE NoValue

\* The candidate names of the delimited-text adapter (lines 86-106); the
\* spreadsheet adapter passes the same lists (lines 156-162).
candidates ==
    [
      date |->
        << <<"d", "a", "t", "e">>,
           <<"t", "r", "a", "n", "s", "a", "c", "t", "i", "o", "n", " ", "d", "a", "t", "e">>,
           <<"t", "x", "n", " ", "d", "a", "t", "e">>,
           <<"v", "a", "l", "u", "e", " ", "d", "a", "t", "e">>,
           <<"v", "a", "l", "u", "e", " ", "d", "t">>,
           <<"v", "a", "l", "u", "e", "d", "t">>,
           <<"p", "o", "s", "t", "i", "n", "g", " ", "d", "a", "t", "e">> >>,
      description |->
        << <<"d", "e", "s", "c", "r", "i", "p", "t", "i", "o", "n">>,
           <<"n", "a", "r", "r", "a", "t", "i", "o", "n">>,
           <<"d", "e", "t", "a", "i", "l", "s">>,
           <<"m", "e", "r", "c", "h", "a", "n", "t">>,
           <<"r", "e", "m", "a", "r", "k", "s">>,
           <<"p", "a", "r", "t", "i", "c", "u", "l", "a", "r", "s">> >>,
      debit |->
        << <<"d", "e", "b", "i", "t">>,
           <<"d", "e", "b", "i", "t", " ", "a", "m", "o", "u", "n", "t">>,
           <<"w", "i", "t", "h", "d", "r", "a", "w", "a", "l", " ", "a", "m", "t", ".">>,
           <<"w", "i", "t", "h", "d", "r", "a", "w", "a", "l", " ", "a", "m", "o", "u", "n", "t">>,
           <<"w", "i", "t", "h", "d", "r", "a", "w", "a", "l">>,
           <<"d", "r">> >>,
      credit |->
        << <<"c", "r", "e", "d", "i", "t">>,
           <<"c", "r", "e", "d", "i", "t", " ", "a", "m", "o", "u", "n", "t">>,
           <<"d", "e", "p", "o", "s", "i", "t", " ", "a", "m", "t", ".">>,
           <<"d", "e", "p", "o", "s", "i", "t", " ", "a", "m", "o", "u", "n", "t">>,
           <<"d", "e", "p", "o", "s", "i", "t">>,
           <<"c", "r">> >>,
      amount |->
        << <<"a", "m", "o", "u", "n", "t">>,
           <<"t", "r", "a", "n", "s", "a", "c", "t", "i", "o", "n", " ", "a", "m", "o", "u", "n", "t">>,
           <<"a", "m", "t">> >>,
      type |->
        << <<"t", "y", "p", "e">>,
           <<"t", "r", "a", "n", "s", "a", "c", "t", "i", "o", "n", " ", "t", "y", "p", "e">>,
           <<"d", "r", "/", "c", "r">>,
           <<"d", "r", "/", " ", "c", "r">>,
           <<"d", "e", "b", "i", "t", "/", "c", "r", "e", "d", "i", "t">>,
           <<"c", "r", "d", "r">> >>,
      ref |->
        << <<"r", "e", "f">>,
           <<"r", "e", "f", " ", "n", "o">>,
           <<"r", "e", "f", "e", "r", "e", "n", "c", "e">>,
           <<"r", "e", "f", "e", "r", "e", "n", "c", "e", " ", "n", "o">>,
           <<"u", "t", "r">>,
           <<"t", "r", "a", "n", "s", "a", "c", "t", "i", "o", "n", " ", "i", "d">>,
           <<"c", "h", "e", "q", "u", "e", " ", "n", "o">> >>
    ]

\* The candidate names of the PDF adapter (lines 204-208).
pdf_candidates ==
    [
      date |->
        << <<"d", "a", "t", "e">>,
           <<"v", "a", "l", "u", "e", "d", "t">>,
           <<"v", "a", "l", "u", "e", " ", "d", "t">>,
           <<"v", "a", "l", "u", "e", "d", "a", "t", "e">> >>,
      description |->
        << <<"n", "a", "r", "r", "a", "t", "i", "o", "n">>,
           <<"d", "e", "s", "c", "r", "i", "p", "t", "i", "o", "n">>,
           <<"d", "e", "t", "a", "i", "l", "s">> >>,
      ref |->
        << <<"c", "h", "q", "r", "e", "f", "n", "o">>,
           <<"c", "h", "q", "/", "r", "e", "f", "n", "o">>,
           <<"r", "e", "f">>,
           <<"r", "e", "f", " ", "n", "o">>,
           <<"u", "t", "r">> >>,
      debit |->
        << <<"w", "i", "t", "h", "d", "r", "a", "w", "a", "l", "a", "m", "t">>,
           <<"w", "i", "t", "h", "d", "r", "a", "w", "a", "l", " ", "a", "m", "t">>,
           <<"d", "e", "b", "i", "t">>,
           <<"d", "r">> >>,
      credit |->
        << <<"d", "e", "p", "o", "s", "i", "t", "a", "m", "t">>,
           <<"d", "e", "p", "o", "s", "i", "t", " ", "a", "m", "t">>,
           <<"c", "r", "e", "d", "i", "t">>,
           <<"c", "r">> >>
    ]

Fields == {"date", "description", "debit", "credit", "amount", "type", "ref"}

\* `x or d` on an index: None and 0 are both false.
Or(x, d) == IF x = NoValue \/ x = Index(0) THEN d ELSE x

\* Lines 86-106.
csv_columns(header) ==
    [date |-> _find_column(header, candidates.date),
     description |-> _find_column(header, candidates.description),
     debit |-> _find_column(header, candidates.debit),
     credit |-> _find_column(header, candidates.credit),
     amount |-> _find_column(header, candidates.amount),
     type |-> _find_column(header, candidates.type),
     ref |-> _find_column(header, candidates.ref)]

\* Lines 155-162: the header cells are str(c) of the frame's column labels.
excel_columns(header) ==
    [date |-> Or(_find_column(header, candidates.date), Index(0)),
     description |-> Or(_find_column(header, candidates.description), Index(1)),
     debit |-> _find_column(header, candidates.debit),
     credit |-> _find_column(header, candidates.credit),
     amount |-> _find_column(header, candidates.amount),
     type |-> _find_column(header, candidates.type),
     ref |-> _find_column(header, candidates.ref)]

\* Lines 200-202: a missing cell is "", then asterisks and periods go.
pdf_header(cells) ==
    [i \in 1..Len(cells) |->
        Strip(Remove(Remove(_normalize(OrEmpty(cells[i])), <<"*">>), <<".">>))]

\* `p if x is None and cond else x`
IfNone(x, cond, p) == IF x = NoValue /\ cond THEN Index(p) ELSE x

\* Variant: in a table without a debit column and of six columns or more the
\* positional indexes replace what header matching found.
pdf_columns_overriding_matches(cells) ==
    LET header == pdf_header(cells)
        date_idx == _find_column(header, pdf_candidates.date)
        desc_idx == _find_column(header, pdf_candidates.description)
        ref_idx == _find_column(header, pdf_candidates.ref)
        debit_idx == _find_column(header, pdf_candidates.debit)
        credit_idx == _find_column(header, pdf_candidates.credit)
        positional == debit_idx = NoValue /\ Len(header) >= 6
    IN [date |-> IF positional THEN Index(0) ELSE date_idx,
        description |-> IF positional THEN Index(1) ELSE desc_idx,
        debit |-> IF positional THEN Index(4) ELSE debit_idx,
        credit |-> IF positional THEN Index(5) ELSE credit_idx,
        amount |-> NoValue,
        type |-> NoValue,
        ref |-> IF positional THEN Index(2) ELSE ref_idx]

\* Lines 204-219 and 231-232: header matching, then the positional mapping
\* when no debit column was found in a table of six columns or more; the
\* adapter reads no amount and no type column.
pdf_columns(cells) ==
    LET header == pdf_header(cells)
        date_idx == _find_column(header, pdf_candidates.date)
        desc_idx == _find_column(header, pdf_candidates.description)
        ref_idx == _find_column(header, pdf_candidates.ref)
        debit_idx == _find_column(header, pdf_candidates.debit)
        credit_idx == _find_column(header, pdf_candidates.credit)
        positional == debit_idx = NoValue /\ Len(header) >= 6
    IN [date |-> IfNone(date_idx, positional, 0),
        description |-> IfNone(desc_idx, positional, 1),
        debit |-> IfNone(debit_idx, positional /\ Len(header) >= 5, 4),
        credit |-> IfNone(credit_idx, positional /\ Len(header) >= 6, 5),
        amount |-> NoValue,
        type |-> NoValue,
        ref |-> IfNone(ref_idx, positional /\ Len(header) >= 3, 2)]

MaxCols == 3   \* columns of a header row

\* Header cells: what each is to the candidate lists.
HeaderCells ==
    { <<"T", "r", "a", "n", " ", "D", "a", "t", "e">>,
      <<" ", "D", "A", "T", "E", " ">>,
      <<"D", "e", "s", "c", "r", "i", "p", "t", "i", "o", "n">>,
      <<"W", "i", "t", "h", "d", "r", "a", "w", "a", "l", " ", "A", "m", "t", ".">>,
      <<"D", "e", "b", "i", "t", " ", "D", "e", "t", "a", "i", "l", "s">>,
      <<"B", "a", "l", "a", "n", "c", "e">> }

Headers == SeqsUpTo(HeaderCells, MaxCols)

Adapters == {"csv", "excel", "pdf"}

columns_of(adapter, header) ==
    CASE adapter = "csv" -> csv_columns(header)
      [] adapter = "excel" -> excel_columns(header)
      [] adapter = "pdf" -> pdf_columns(header)

\* An adapter matches the header row of a table.
MatchHeader ==
    /\ call = NoValue
    /\ \E adapter \in Adapters, header \in Headers :
          call' = [op |-> "columns", adapter |-> adapter, header |-> header,
                   columns |-> columns_of(adapter, header)]
    /\ UNCHANGED import_vars

SpecColumns == Init /\ [][MatchHeader]_vars

MaxWideCols == 6   \* columns of the widest PDF table

\* Header cells of a wide PDF table: no label, a date label, a credit label
\* and a debit label.
WideCells ==
    { <<>>,
      <<"V", "a", "l", "u", "e", " ", "D", "t">>,
      <<"D", "e", "p", "o", "s", "i", "t", " ", "A", "m", "t", ".">>,
      <<"W", "i", "t", "h", "d", "r", "a", "w", "a", "l", " ", "A", "m", "t", ".">> }

MaxLabels == 2     \* cells of such a header row that carry a label

\* The header rows of MaxWideCols columns and of one column less.
WideHeaders ==
    {h \in SeqsUpTo(WideCells, MaxWideCols) :
        /\ Len(h) >= MaxWideCols - 1
        /\ Cardinality({i \in 1..Len(h) : h[i] # <<>>}) <= MaxLabels}

\* The PDF adapter matches the header row of a wide table.
MatchWideHeader ==
    /\ call = NoValue
    /\ \E header \in WideHeaders :
          call' = [op |-> "columns", adapter |-> "pdf", header |-> header,
                   columns |-> pdf_columns(header)]
    /\ UNCHANGED import_vars

SpecWideColumns == Init /\ [][MatchWideHeader]_vars

----------------------------------------------------------------------------
(* Amount resolution on its own: compute_withdrawal_amount over rows whose *)
(* debit, credit, amount and type cells range over the tokens below.       *)

AmountTokens ==
    { None, <<"5", "0", "0">>, <<"-", "5", "0", "0">>, <<"0">>, <<"a", "b", "c">>,
      <<"1", ",", "2", "0", "0", ".", "5", "0">>, <<"n", "a", "n">> }

TypeTokens ==
    { None, <<>>, <<"D", "R">>, <<" ", "C", "r", "e", "d", "i", "t", " ">>, <<"d">>, <<"u", "p", "i">> }

AmountRows ==
    { Row(None, None, debit, credit, amount, type, None) :
          debit \in AmountTokens, credit \in AmountTokens, amount \in AmountTokens,
          type \in TypeTokens }

\* compute_withdrawal_amount is applied to one row.
ResolveAmount ==
    /\ call = NoValue
    /\ \E row \in AmountRows :
          call' = [op |-> "amount", row |-> row, result |-> compute_withdrawal_amount(row)]
    /\ UNCHANGED import_vars

SpecAmount == Init /\ [][ResolveAmount]_vars

----------------------------------------------------------------------------
(* The classifier on its own: choose_category_name_from_keywords over the  *)
(* descriptions and the lists of category names below.                     *)

MaxNames == 2   \* category names the caller supplies

Descriptions ==
    { None,
      <<>>,
      Zomato,
      <<" ", "A", "i", "r", "a", "s", "i", "a", " ", "A", "T", "M", " ">>,
      <<"C", "a", "s", "h", " ", "a", "t", " ", "C", "a", "f", "e">>,
      <<"R", "E", "N", "T", " ", "v", "i", "a", " ", "N", "E", "F", "T">>,
      <<"G", "y", "m", "k", "h", "a", "n", "a", " ", "c", "l", "u", "b">>,
      <<"G", "y", "m">> }

\* Category names as stored: any text POST /categories was given.
NameTokens ==
    { <<"U", "P", "I">>, <<"G", "y", "m">>, <<"G", "y", "m", " ">>, <<"C", "l", "u", "b">>, <<" ">> }

\* The classifier is applied to one description.
Classify ==
    /\ call = NoValue
    /\ \E description \in Descriptions, names \in SeqsUpTo(NameTokens, MaxNames) :
          call' = [op |-> "classify", description |-> description, names |-> names,
                   result |-> choose_category_name_from_keywords(description, names)]
    /\ UNCHANGED import_vars

SpecClassifier == Init /\ [][Classify]_vars

----------------------------------------------------------------------------
(* Reconstruction of a merged PDF row: _explode_multiline_pdf_row.  A cell  *)
(* that holds several values has them on lines of their own.               *)

Min(a, b) == IF a < b THEN a ELSE b
Max(a, b) == IF a > b THEN a ELSE b

\* sep.join(lines)
RECURSIVE Join(_, _)
Join(lines, sep) ==
    IF lines = <<>> THEN <<>>
    ELSE IF Len(lines) = 1 THEN lines[1]
    ELSE lines[1] \o <<sep>> \o Join(Tail(lines), sep)

\* Variant: blank lines are kept.
split_lines_keeping_blanks(val) ==
    IF val = None \/ Strip(val) = <<>> THEN <<>>
    ELSE [i \in 1..Len(Split(val, "\n")) |-> Strip(Split(val, "\n")[i])]

\* Lines 247-251: the trimmed, non-blank lines of a cell.
split_lines(val) ==
    IF val = None \/ Strip(val) = <<>> THEN <<>>
    ELSE SelectSeq([i \in 1..Len(Split(val, "\n")) |-> Strip(Split(val, "\n")[i])],
                   LAMBDA l : l # <<>>)

\* Lines 272-284: the description lines in groups of lines_per_transaction,
\* each joined with blanks, then "" up to the number of transactions.
desc_groups_of(desc_lines, num_transactions) ==
    LET lines_per_transaction == Max(1, Len(desc_lines) \div num_transactions)
        groups == (Len(desc_lines) + lines_per_transaction - 1) \div lines_per_transaction
    IN [g \in 1..Max(groups, num_transactions) |->
           IF g <= groups
           THEN Join(SubSeq(desc_lines, (g - 1) * lines_per_transaction + 1,
                            Min(g * lines_per_transaction, Len(desc_lines))), " ")
           ELSE <<>>]

\* Line 303: what marks a description as a debit.
DebitMarkers ==
    { <<"U", "P", "I", "-">>, <<"P", "O", "S", " ">>, <<"A", "T", "M">>,
      <<"W", "I", "T", "H", "D", "R", "A", "W", "A", "L">> }

\* Variant: a transaction without a preferred value tries the credit lines
\* before the debit lines.
RECURSIVE explode_from_credit_first(_, _, _, _)
explode_from_credit_first(i, debit_idx, credit_idx, c) ==
    IF i > Len(c.dates) THEN <<>>
    ELSE LET desc_val == c.desc_groups[i]
             looks_debit == \E m \in DebitMarkers : Contains(UpperStr(desc_val), m)
             preferred_debit ==
                 desc_val # <<>> /\ looks_debit /\ debit_idx < Len(c.debits)
             preferred_credit ==
                 desc_val # <<>> /\ ~looks_debit /\ credit_idx < Len(c.credits)
             unassigned == ~preferred_debit /\ ~preferred_credit
             takes_credit ==
                 preferred_credit \/ (unassigned /\ credit_idx < Len(c.credits))
             takes_debit ==
                 \/ preferred_debit
                 \/ unassigned /\ ~(credit_idx < Len(c.credits)) /\ debit_idx < Len(c.debits)
         IN << Row(c.dates[i], desc_val,
                   IF takes_debit THEN c.debits[debit_idx + 1] ELSE None,
                   IF takes_credit THEN c.credits[credit_idx + 1] ELSE None,
                   None, None,
                   IF i <= Len(c.refs) THEN c.refs[i] ELSE None) >>
            \o explode_from_credit_first(i + 1,
                            IF takes_debit THEN debit_idx + 1 ELSE debit_idx,
                            IF takes_credit THEN credit_idx + 1 ELSE credit_idx, c)

\* Variant: the debit cursor stays where it is, so the same debit line is
\* handed out again.
RECURSIVE explode_from_reusing_debit(_, _, _, _)
explode_from_reusing_debit(i, debit_idx, credit_idx, c) ==
    IF i > Len(c.dates) THEN <<>>
    ELSE LET desc_val == c.desc_groups[i]
             looks_debit == \E m \in DebitMarkers : Contains(UpperStr(desc_val), m)
             preferred_debit ==
                 desc_val # <<>> /\ looks_debit /\ debit_idx < Len(c.debits)
             preferred_credit ==
                 desc_val # <<>> /\ ~looks_debit /\ credit_idx < Len(c.credits)
             unassigned == ~preferred_debit /\ ~preferred_credit
             takes_debit ==
                 preferred_debit \/ (unassigned /\ debit_idx < Len(c.debits))
             takes_credit ==
                 \/ preferred_credit
                 \/ unassigned /\ ~(debit_idx < Len(c.debits)) /\ credit_idx < Len(c.credits)
         IN << Row(c.dates[i], desc_val,
                   IF takes_debit THEN c.debits[debit_idx + 1] ELSE None,
                   IF takes_credit THEN c.credits[credit_idx + 1] ELSE None,
                   None, None,
                   IF i <= Len(c.refs) THEN c.refs[i] ELSE None) >>
            \o explode_from_reusing_debit(i + 1, debit_idx,
                            IF takes_credit THEN credit_idx + 1 ELSE credit_idx, c)

\* Lines 290-331 from transaction i on; debit_idx and credit_idx count the
\* debit and credit lines already handed out.
RECURSIVE explode_from(_, _, _, _)
explode_from(i, debit_idx, credit_idx, c) ==
    IF i > Len(c.dates) THEN <<>>
    ELSE LET desc_val == c.desc_groups[i]
             looks_debit == \E m \in DebitMarkers : Contains(UpperStr(desc_val), m)
             preferred_debit ==
                 desc_val # <<>> /\ looks_debit /\ debit_idx < Len(c.debits)
             preferred_credit ==
                 desc_val # <<>> /\ ~looks_debit /\ credit_idx < Len(c.credits)
             unassigned == ~preferred_debit /\ ~preferred_credit
             takes_debit ==
                 preferred_debit \/ (unassigned /\ debit_idx < Len(c.debits))
             takes_credit ==
                 \/ preferred_credit
                 \/ unassigned /\ ~(debit_idx < Len(c.debits)) /\ credit_idx < Len(c.credits)
         IN << Row(c.dates[i], desc_val,
                   IF takes_debit THEN c.debits[debit_idx + 1] ELSE None,
                   IF takes_credit THEN c.credits[credit_idx + 1] ELSE None,
                   None, None,
                   IF i <= Len(c.refs) THEN c.refs[i] ELSE None) >>
            \o explode_from(i + 1,
                            IF takes_debit THEN debit_idx + 1 ELSE debit_idx,
                            IF takes_credit THEN credit_idx + 1 ELSE credit_idx, c)

_explode_multiline_pdf_row(row) ==
    LET dates == split_lines(row.date)
    IN IF dates = <<>> THEN <<>>
       ELSE explode_from(1, 0, 0,
                [dates |-> dates,
                 debits |-> split_lines(row.debit),
                 credits |-> split_lines(row.credit),
                 desc_groups |-> desc_groups_of(split_lines(row.description), Len(dates)),
                 refs |-> split_lines(row.ref)])

MaxLines == 2              \* lines of the date cell
MaxDescriptionLines == 3   \* lines of the description cell

\* A cell of the extracted table that holds the given lines.
Cell(lines) == Join(lines, "\n")

DateLines == { <<"0", "1", "/", "0", "1", "/", "2", "0", "2", "4">>, <<" ", "0", "2", "/", "0", "1", "/", "2", "0", "2", "4", " ">>, <<" ">> }

DescriptionLines == { <<"u", "p", "i", "-", "a">>, <<"N", "E", "F", "T", " ", "B", " ">> }

\* The merged rows: the cells the PDF adapter puts into the row at lines
\* 226-234, None where the table has no such cell.
MergedRows ==
    { Row(date, description, debit, credit, None, None, ref) :
          date \in {None} \cup {Cell(l) : l \in SeqsUpTo(DateLines, MaxLines)},
          description \in {Cell(l) : l \in SeqsUpTo(DescriptionLines, MaxDescriptionLines)},
          debit \in {None, <<"1", "0", "0">>, <<"1", "0", "0", "\n", "\n", "3", "0", "0">>},
          credit \in {None, <<"2", "0", "0">>, <<"2", "0", "0", "\n", "4", "0", "0">>},
          ref \in {None, <<"R", "1", "\n", "R", "2">>} }

\* A merged row is reconstructed.
Explode ==
    /\ call = NoValue
    /\ \E row \in MergedRows :
          call' = [op |-> "explode", row |-> row, result |-> _explode_multiline_pdf_row(row)]
    /\ UNCHANGED import_vars

SpecExplode == Init /\ [][Explode]_vars

----------------------------------------------------------------------------
(* The PDF adapter over a whole document: parse_bank_statement_pdf.  A     *)
(* document is the list of its pages, a page the list of its extracted     *)
(* tables, a table the list of its rows, a row the list of its cells.      *)

\* The lists of a list of lists, one after the other.
RECURSIVE Concat(_)
Concat(lists) == IF lists = <<>> THEN <<>> ELSE Head(lists) \o Concat(Tail(lists))

\* Variant: the rows reconstructed from merged rows come after the other
\* rows of the table.
pdf_rows_of_table_merged_last(table) ==
    IF table = <<>> THEN <<>>
    ELSE LET cols == pdf_columns(table[1])
             get(raw, i) == IF i # NoValue /\ i.i < Len(raw) THEN raw[i.i + 1] ELSE None
             row_of(raw) == Row(get(raw, cols.date), get(raw, cols.description),
                                get(raw, cols.debit), get(raw, cols.credit),
                                None, None, get(raw, cols.ref))
             decorative(raw) == \A c \in 1..Len(raw) : Strip(OrEmpty(raw[c])) = <<>>
             multiline(r) == \E v \in {r.date, r.description, r.debit, r.credit} :
                                 v # None /\ Contains(v, <<"\n">>)
         IN Concat([k \in 1..(Len(table) - 1) |->
                       IF decorative(table[k + 1]) \/ multiline(row_of(table[k + 1]))
                       THEN <<>> ELSE <<row_of(table[k + 1])>>])
            \o Concat([k \in 1..(Len(table) - 1) |->
                       IF ~decorative(table[k + 1]) /\ multiline(row_of(table[k + 1]))
                       THEN _explode_multiline_pdf_row(row_of(table[k + 1])) ELSE <<>>])

\* Lines 198-240: the canonical rows of one table, in row order; an empty
\* table gives none, a decorative row gives none, a row with a newline in
\* its date, description, debit or credit gives its reconstructed rows.
pdf_rows_of_table(table) ==
    IF table = <<>> THEN <<>>
    ELSE LET cols == pdf_columns(table[1])
             get(raw, i) == IF i # NoValue /\ i.i < Len(raw) THEN raw[i.i + 1] ELSE None
             row_of(raw) == Row(get(raw, cols.date), get(raw, cols.description),
                                get(raw, cols.debit), get(raw, cols.credit),
                                None, None, get(raw, cols.ref))
             decorative(raw) == \A c \in 1..Len(raw) : Strip(OrEmpty(raw[c])) = <<>>
             multiline(r) == \E v \in {r.date, r.description, r.debit, r.credit} :
                                 v # None /\ Contains(v, <<"\n">>)
         IN Concat([k \in 1..(Len(table) - 1) |->
                       IF decorative(table[k + 1]) THEN <<>>
                       ELSE IF multiline(row_of(table[k + 1]))
                       THEN _explode_multiline_pdf_row(row_of(table[k + 1]))
                       ELSE <<row_of(table[k + 1])>>])

MaxTableRows == 2   \* data rows of an extracted table

PdfHeader ==
    << <<"D", "a", "t", "e">>, <<"N", "a", "r", "r", "a", "t", "i", "o", "n">>,
       <<"W", "i", "t", "h", "d", "r", "a", "w", "a", "l", " ", "A", "m", "t", ".">>,
       <<"D", "e", "p", "o", "s", "i", "t", " ", "A", "m", "t", ".">> >>

\* Rows of an extracted table: a plain one, a merged one and a decorative one.
RawRows ==
    { << <<"0", "3", "/", "0", "1", "/", "2", "0", "2", "4">>, <<"N", "E", "F", "T", " ", "C">>, None, <<"3", "0", "0">> >>,
      << <<"0", "1", "/", "0", "1", "/", "2", "0", "2", "4", "\n", "0", "2", "/", "0", "1", "/", "2", "0", "2", "4">>,
         <<"u", "p", "i", "-", "a", "\n", "N", "E", "F", "T", " ", "B">>, <<"1", "0", "0">>, <<"2", "0", "0">> >>,
      << <<" ">>, None, <<>>, <<>> >> }

\* What extract_tables yields: an empty table, or a header row and data rows.
Tables == {<<>>} \cup {<<PdfHeader>> \o r : r \in SeqsUpTo(RawRows, MaxTableRows)}

\* pdf_rows_of_table of every table, evaluated once.
TableRows == [table \in Tables |-> pdf_rows_of_table(table)]

\* Lines 193-241: pages in order, the tables of a page in order.
parse_bank_statement_pdf(pages) ==
    Concat([p \in 1..Len(pages) |->
               Concat([k \in 1..Len(pages[p]) |-> TableRows[pages[p][k]]])])

\* Documents of two pages, the first with two tables, the second with one.
Documents == { << <<a, b>>, <<c>> >> : a \in Tables, b \in Tables, c \in Tables }

\* The PDF adapter parses a document.
ParsePdf ==
    /\ call = NoValue
    /\ \E pages \in Documents :
          call' = [op |-> "pdf", pages |-> pages, result |-> parse_bank_statement_pdf(pages)]
    /\ UNCHANGED import_vars

SpecPdf == Init /\ [][ParsePdf]_vars

----------------------------------------------------------------------------
(* The delimited-text adapter over a whole file: parse_bank_statement_csv. *)
(* The file is its decoded text; the texts here hold no quote character.   *)

\* list(csv.reader(io.StringIO(text))) for such a text: one list of cells per
\* line, the empty list for an empty line, nothing for the end of the text
\* after the last line break.
csv_reader(text) ==
    LET pieces == Split(text, "\n")
        lines == IF pieces[Len(pieces)] = <<>> THEN SubSeq(pieces, 1, Len(pieces) - 1)
                 ELSE pieces
    IN [k \in 1..Len(lines) |-> IF lines[k] = <<>> THEN <<>> ELSE Split(lines[k], ",")]

\* Lines 86-131: the canonical rows of the data rows under the header.
csv_rows(header, data_rows) ==
    LET cols == csv_columns(header)
        get(raw, i) == IF i # NoValue /\ i.i < Len(raw) THEN raw[i.i + 1] ELSE None
        kept == SelectSeq(data_rows, LAMBDA raw : \E c \in 1..Len(raw) : Strip(raw[c]) # <<>>)
    IN [k \in 1..Len(kept) |->
           Row(get(kept[k], cols.date), get(kept[k], cols.description),
               get(kept[k], cols.debit), get(kept[k], cols.credit),
               get(kept[k], cols.amount), get(kept[k], cols.type), get(kept[k], cols.ref))]

\* Lines 78-84: the first row the reader yields is the header.
parse_bank_statement_csv(text) ==
    LET read == csv_reader(text)
    IN IF read = <<>> THEN <<>> ELSE csv_rows(read[1], Tail(read))

MaxCsvLines == 3   \* lines of an uploaded text file

CsvLines ==
    { <<>>,
      <<" ", " ">>,
      <<"D", "a", "t", "e", ",", "D", "e", "s", "c", "r", "i", "p", "t", "i", "o", "n", ",", "D", "e", "b", "i", "t">>,
      <<"3", "1", "/", "0", "1", "/", "2", "0", "2", "4", ",", "U", "P", "I", "-", "Z", "O", "M", "A", "T", "O", ",", "5", "0", "0">>,
      <<",", ",">> }

\* The uploaded texts: lines separated by line breaks.
CsvTexts == {Join(l, "\n") : l \in SeqsUpTo(CsvLines, MaxCsvLines)}

\* The delimited-text adapter parses a file.
ParseCsv ==
    /\ call = NoValue
    /\ \E text \in CsvTexts :
          call' = [op |-> "csv", text |-> text, result |-> parse_bank_statement_csv(text)]
    /\ UNCHANGED import_vars

SpecCsv == Init /\ [][ParseCsv]_vars

----------------------------------------------------------------------------
(* Date parsing on its own: _parse_date over date tokens of every shape    *)
(* the six formats and the ISO fallback distinguish.                       *)

\* Day and month fields: valid as both, valid as a day only, one digit.
DayMonthTokens == { <<"0", "1">>, <<"1", "2">>, <<"1", "3">>, <<"3", "1">>, <<"1">> }

Year2024 == <<"2", "0", "2", "4">>

DateTokens ==
    {None, <<>>, <<"a", "b", "c">>, <<" ", "3", "1", "/", "0", "1", "/", "2", "0", "2", "4", " ">>, <<"2", "0", "2", "4", "/", "0", "1", "/", "3", "1">>}
    \cup {a \o <<"/">> \o b \o <<"/">> \o Year2024 : a \in DayMonthTokens, b \in DayMonthTokens}
    \cup {a \o <<"-">> \o b \o <<"-">> \o Year2024 : a \in DayMonthTokens, b \in DayMonthTokens}
    \cup {Year2024 \o <<"-">> \o a \o <<"-">> \o b : a \in DayMonthTokens, b \in DayMonthTokens}
    \cup {Year2024 \o <<"-">> \o a \o <<"-">> \o b \o <<"T", "1", "0", ":", "3", "0", ":", "0", "0">> :
              a \in DayMonthTokens, b \in DayMonthTokens}
    \cup {a \o <<" ">> \o m \o <<" ">> \o Year2024 :
              a \in DayMonthTokens,
              m \in {<<"F", "e", "b">>, <<"f", "e", "b", "r", "u", "a", "r", "y">>, <<"F", "e", "b", "r">>}}

\* A date token is parsed.
ParseDate ==
    /\ call = NoValue
    /\ \E value \in DateTokens :
          call' = [op |-> "date", value |-> value, result |-> _parse_date(value)]
    /\ UNCHANGED import_vars

SpecDate == Init /\ [][ParseDate]_vars

----------------------------------------------------------------------------
(* The duplicate query on its own: transaction_exists over small stores.   *)

MaxStored == 2   \* records of the transactions table

Stores ==
    SeqsUpTo({Transaction(tx_in, user_id) : tx_in \in TransactionCreates, user_id \in Users},
             MaxStored)

\* What the caller asks for: the description in either case.
Queries ==
    { [user_id |-> user_id, description |-> description, amount |-> tx_in.amount,
       transaction_date |-> tx_in.transaction_date] :
          user_id \in Users, tx_in \in TransactionCreates,
          description \in {Zomato, ZomatoLower} }

\* transaction_exists is awaited: `found` is what scalar_one_or_none gives,
\* the function returning whether it is a row, or raising with it.
CheckExists ==
    /\ call = NoValue
    /\ \E txs \in Stores, q \in Queries :
          call' = [op |-> "exists", txs |-> txs, query |-> q,
                   found |-> transaction_exists(q.user_id, q.description, q.amount,
                                                q.transaction_date, txs)]
    /\ UNCHANGED import_vars

SpecExists == Init /\ [][CheckExists]_vars

----------------------------------------------------------------------------
(* Properties.                                                             *)

Processed == 1..Len(row_outcomes)

\* What row_facts found for the k-th row of the running request.
Facts(k) == RowFacts[rows[k]]

AmountResolves(k) == Facts(k).amount # NoValue /\ GtZero(Facts(k).amount)

RECURSIVE AcceptedCandidates(_)
AcceptedCandidates(outcomes) ==
    IF outcomes = <<>> THEN <<>>
    ELSE IF Head(outcomes).verdict = Accepted
         THEN <<Head(outcomes).candidate>> \o AcceptedCandidates(Tail(outcomes))
         ELSE AcceptedCandidates(Tail(outcomes))

RECURSIVE RejectionReasons(_)
RejectionReasons(outcomes) ==
    IF outcomes = <<>> THEN <<>>
    ELSE IF Head(outcomes).verdict # Accepted
         THEN <<Head(outcomes).verdict>> \o RejectionReasons(Tail(outcomes))
         ELSE RejectionReasons(Tail(outcomes))

Returned == pc = "done"

\* C1: every import that returns a result has created_count + skipped_count
\* equal to the number of canonical rows the adapter produced.
C1_EveryRowCountedOnce ==
    Returned => response.created_count + response.skipped_count = Len(rows)

C1_Witness ==
    /\ Returned
    /\ Len(rows) = 2
    /\ response.created_count = 1
    /\ response.skipped_count = 1

\* C3 as stated: an upload the adapter cannot parse is answered with a normal
\* result, created_count 0 and one generic skip reason, and nothing is written.
C3_ParseFailureIsNormalResult ==
    (request # NoValue /\ ~request.file.readable) =>
        /\ pc = "done"
        /\ response.status = 200
        /\ response.created_count = 0
        /\ Len(response.skipped_reasons) = 1
        /\ transactions = before.transactions
        /\ categories = before.categories

\* C3 amended: an upload the adapter cannot parse fails the request with
\* status 400 and writes nothing; the normal result with created_count 0 and
\* the single generic reason is the answer to a statement without rows.
C3_ParseFailureIsBadRequest ==
    /\ (request # NoValue /\ ~request.file.readable) =>
          /\ pc = "failed"
          /\ response.status = 400
          /\ transactions = before.transactions
          /\ categories = before.categories
    /\ (request # NoValue /\ request.file.readable /\ request.file.table = <<>>) =>
          /\ pc = "done"
          /\ response.status = 200
          /\ response.created_count = 0
          /\ response.skipped_reasons = <<NoDataRows>>
          /\ transactions = before.transactions
          /\ categories = before.categories

C3_Witness ==
    /\ request # NoValue
    /\ ~request.file.readable
    /\ pc = "failed"
    /\ transactions # <<>>

NoPatternMatches(r) ==
    r.date = None \/ r.date = <<>> \/ FirstFormat(Strip(r.date)) = 0

\* The date token of a row is missing, or fromisoformat rejects it.
NoIsoDate(r) ==
    r.date = None \/ r.date = <<>> \/ FromIsoFormat(Strip(r.date)) = NoValue

\* Both, for every catalogue row, evaluated once.
DateShape ==
    [r \in RowCatalogue |-> [no_pattern |-> NoPatternMatches(r), no_iso |-> NoIsoDate(r)]]

\* No candidate without a date is in the pending batch, in a batch handed to
\* the bulk write, or in the table.
NoDatelessCandidate ==
    /\ \A j \in 1..Len(tx_inputs) : tx_inputs[j].transaction_date # NoValue
    /\ \A b \in 1..Len(bulk_calls) : \A j \in 1..Len(bulk_calls[b]) :
          bulk_calls[b][j].transaction_date # NoValue
    /\ \A j \in 1..Len(transactions) : transactions[j].transaction_date # NoValue
    /\ Len(tx_inputs) = Len(AcceptedCandidates(row_outcomes))

\* C5 as stated: a row with a positive withdrawal whose date token is missing
\* or matches no date pattern is rejected as "Invalid date" and never written.
C5_NoPatternMeansInvalidDate ==
    \A k \in Processed :
        (AmountResolves(k) /\ DateShape[rows[k]].no_pattern) =>
            row_outcomes[k].verdict = InvalidDate

\* C5 amended: a row with a positive withdrawal whose date token is missing,
\* or matches none of the patterns and is not an ISO date or date-time that
\* the fromisoformat fallback accepts, is rejected as "Invalid date" and is
\* never part of the bulk write.
C5_UnparsedDateMeansInvalidDate ==
    /\ \A k \in Processed :
          (/\ AmountResolves(k)
           /\ DateShape[rows[k]].no_pattern
           /\ DateShape[rows[k]].no_iso) =>
              /\ row_outcomes[k].verdict = InvalidDate
              /\ row_outcomes[k].candidate = NoValue
    /\ NoDatelessCandidate

C5_Witness ==
    /\ Returned
    /\ response.created_count = 1
    /\ \E k \in Processed :
          /\ AmountResolves(k)
          /\ rows[k].date = BadDate
          /\ row_outcomes[k].verdict = InvalidDate

\* The running request is a second upload of the same file by the same user,
\* both with skip_duplicates, the first having returned a result and the
\* tables being as the first left them.
SecondPassOfSameFile ==
    /\ previous # NoValue
    /\ previous.pc = "done"
    /\ previous.request.file = request.file
    /\ previous.request.user_id = request.user_id
    /\ previous.request.skip_duplicates
    /\ request.skip_duplicates
    /\ before = previous.after

\* C2: the second of two imports of the same file with skip_duplicates
\* completes with created_count 0 and reports "Duplicate transaction" for
\* every row the first import created.
C2_SecondPassAllDuplicates ==
    (SecondPassOfSameFile /\ pc \in {"done", "failed"}) =>
        /\ pc = "done"
        /\ response.created_count = 0
        /\ \A k \in 1..Len(previous.row_outcomes) :
              previous.row_outcomes[k].verdict = Accepted =>
                  (k \in Processed /\ row_outcomes[k].verdict = Duplicate)

InLoopOrCancelled == pc \in {"loop", "bulk", "aborted"}

IsPrefix(p, q) == Len(p) <= Len(q) /\ SubSeq(q, 1, Len(p)) = p

\* C6 as stated: until the loop has handled the last row nothing is written,
\* to the transactions or to the categories; a request cancelled before the
\* batch step leaves both tables as they were.
C6_NoWriteBeforeBatch ==
    InLoopOrCancelled =>
        /\ transactions = before.transactions
        /\ categories = before.categories

\* C6 amended: until the batch step no transaction is written, so a request
\* cancelled before it leaves the transactions table as it was; categories
\* are created and committed inside the loop when create_missing_categories
\* is set, and only then.
C6_NoTransactionBeforeBatch ==
    InLoopOrCancelled =>
        /\ transactions = before.transactions
        /\ IsPrefix(before.categories, categories)
        /\ ~request.create_missing_categories => categories = before.categories

C6_Witness ==
    /\ pc = "aborted"
    /\ tx_inputs # <<>>
    /\ categories # before.categories
    /\ transactions = before.transactions
    /\ transactions # <<>>

\* C7: a row rejected for any of the three reasons changes nothing that is
\* persisted: no category is created on its account.
C7_RejectedRowLeavesNoTrace ==
    \A k \in Processed :
        row_outcomes[k].verdict \in {InvalidDate, NotAWithdrawal, Duplicate} =>
            row_outcomes[k].new_category = None

\* C8: an import that reaches the end of the loop hands exactly one batch to
\* the bulk write, after the last row, holding every accepted candidate in
\* row order; created_count is their number and created has their order.
C8_OneBatchInRowOrder ==
    /\ pc = "loop" => bulk_calls = <<>>
    /\ pc = "bulk" => bulk_calls = <<>> /\ Len(row_outcomes) = Len(rows)
    /\ (Returned /\ rows # <<>>) =>
          /\ Len(row_outcomes) = Len(rows)
          /\ bulk_calls = <<AcceptedCandidates(row_outcomes)>>
          /\ response.created_count = Len(AcceptedCandidates(row_outcomes))
          /\ response.created =
                NewInstances(AcceptedCandidates(row_outcomes), request.user_id)
          /\ transactions = before.transactions \o response.created

C8_Witness ==
    /\ Returned
    /\ Len(rows) = 2
    /\ response.created_count = 2
    /\ response.created[1] # response.created[2]
    /\ before.transactions # <<>>

\* The stored transactions that the duplicate filter's query selects for the
\* k-th row.
StoredMatches(k) ==
    {i \in 1..Len(before.transactions) :
        /\ before.transactions[i].user_id = request.user_id
        /\ LowerStr(before.transactions[i].description) = LowerStr(Facts(k).description)
        /\ before.transactions[i].amount = Facts(k).amount
        /\ before.transactions[i].transaction_date = Facts(k).dt}

ReachesDuplicateFilter(k) == AmountResolves(k) /\ Facts(k).dt # NoValue

\* C9: a candidate is rejected as "Duplicate transaction" exactly when
\* skip_duplicates is set and the store holds a matching transaction of the
\* same user; in every other case it is accepted.
C9_DuplicateIffStoredMatch ==
    \A k \in Processed :
        ReachesDuplicateFilter(k) =>
            IF request.skip_duplicates /\ StoredMatches(k) # {}
            THEN row_outcomes[k].verdict = Duplicate
            ELSE row_outcomes[k].verdict = Accepted

\* C10 as stated: in every result, skipped_reasons has one entry per skipped
\* row, in row order, and skipped_count is the number of entries.
C10_ReasonsMatchSkippedRows ==
    Returned =>
        /\ response.skipped_count = Len(response.skipped_reasons)
        /\ response.skipped_reasons = RejectionReasons(row_outcomes)

\* C10 amended: in every result returned for a statement with at least one
\* row, skipped_reasons has one entry per skipped row, in row order, and
\* skipped_count is the number of entries; the result for a statement without
\* rows has skipped_count 0 and the one entry "No data rows found".
C10_ReasonsMatchSkippedRowsUnlessEmpty ==
    /\ (Returned /\ rows # <<>>) =>
          /\ Len(row_outcomes) = Len(rows)
          /\ response.skipped_count = Len(response.skipped_reasons)
          /\ response.skipped_reasons = RejectionReasons(row_outcomes)
    /\ (Returned /\ rows = <<>>) =>
          /\ response.skipped_count = 0
          /\ response.skipped_reasons = <<NoDataRows>>

C10_Witness ==
    /\ Returned
    /\ response.skipped_count = 2
    /\ response.skipped_reasons[1] # response.skipped_reasons[2]

\* The candidate names an adapter looks for in the header, per field; the
\* PDF adapter looks for no amount and no type column.
candidates_of(adapter, field) ==
    IF adapter # "pdf" THEN candidates[field]
    ELSE IF field \in DOMAIN pdf_candidates THEN pdf_candidates[field]
    ELSE <<>>

\* The header cell as the adapter compares it.
NormalizedCell(adapter, cell) ==
    IF adapter = "pdf" THEN pdf_header(<<cell>>)[1] ELSE _normalize(cell)

\* The columns (counted from 1) whose normalized cell equals a candidate.
ExactColumns(adapter, field, header) ==
    {i \in 1..Len(header) :
        \E c \in 1..Len(candidates_of(adapter, field)) :
            candidates_of(adapter, field)[c] = NormalizedCell(adapter, header[i])}

Matched == call # NoValue /\ call.op = "columns"

\* C11: in each adapter and for each field, when some header cell equals a
\* candidate name of the field after normalization, the column selected for
\* the field is the first such exactly matching column.
C11_ExactColumnSelected ==
    Matched =>
        \A field \in Fields :
            LET exact == ExactColumns(call.adapter, field, call.header)
            IN exact # {} => call.columns[field] = Index(FirstOf(exact) - 1)

Resolved == call # NoValue /\ call.op = "amount"

\* The three numeric cells of the row of the stand-alone call, parsed.
ParsedDebit == _parse_float(call.row.debit)
ParsedCredit == _parse_float(call.row.credit)
ParsedAmount == _parse_float(call.row.amount)

Positive(f) == f # NoValue /\ GtZero(f)

\* C12: a row whose debit parses to a positive amount resolves to that debit
\* value, whatever its credit, amount and type cells hold.
C12_PositiveDebitWins ==
    (Resolved /\ Positive(ParsedDebit)) => call.result = ParsedDebit

C12_Witness ==
    /\ Resolved
    /\ call.row.debit = <<"5", "0", "0">>
    /\ call.row.credit = <<"1", ",", "2", "0", "0", ".", "5", "0">>
    /\ call.row.type = <<" ", "C", "r", "e", "d", "i", "t", " ">>
    /\ call.result = Num(50000)

\* C13: with no positive debit, no positive credit and a parseable amount, a
\* debit type gives abs(amount), a credit type excludes the row, and without
\* a type a negative amount gives abs(amount) and any other amount excludes
\* the row.
C13_AmountColumnByTypeThenSign ==
    (Resolved /\ ~Positive(ParsedDebit) /\ ~Positive(ParsedCredit)
              /\ ParsedAmount # NoValue) =>
        /\ _normalize(call.row.type) \in DebitTypes => call.result = Abs(ParsedAmount)
        /\ _normalize(call.row.type) \in CreditTypes => call.result = NoValue
        /\ call.row.type \in {None, <<>>} =>
              call.result = IF LtZero(ParsedAmount) THEN Abs(ParsedAmount) ELSE NoValue

C13_Witness ==
    /\ Resolved
    /\ call.row.debit = None
    /\ call.row.credit = <<"0">>
    /\ call.row.amount = <<"-", "5", "0", "0">>
    /\ call.row.type = None
    /\ call.result = Num(50000)

\* The catalogue rows that are deposits: the credit parses to a positive
\* amount and the debit does not.  Evaluated once.
IsDeposit ==
    [r \in RowCatalogue |->
        Positive(_parse_float(r.credit)) /\ ~Positive(_parse_float(r.debit))]

\* C14 as stated: a deposit row is left out of the batch without the reason
\* "Not a withdrawal or amount missing" being recorded for it.
C14_DepositNotReported ==
    \A k \in Processed :
        IsDeposit[rows[k]] =>
            /\ row_outcomes[k].candidate = NoValue
            /\ row_outcomes[k].verdict # NotAWithdrawal

\* C14 amended: a deposit row is left out of the batch and is reported like
\* every other row without a withdrawal amount: its reason is "Not a
\* withdrawal or amount missing", which the result lists in skipped_reasons.
C14_DepositReportedAsNotAWithdrawal ==
    \A k \in Processed :
        IsDeposit[rows[k]] =>
            /\ row_outcomes[k].candidate = NoValue
            /\ row_outcomes[k].verdict = NotAWithdrawal
            /\ Returned =>
                  /\ response.skipped_count >= 1
                  /\ \E j \in 1..Len(response.skipped_reasons) :
                        response.skipped_reasons[j] = NotAWithdrawal

C14_Witness ==
    /\ Returned
    /\ response.created_count = 1
    /\ response.skipped_reasons = <<NotAWithdrawal>>
    /\ \E k \in Processed : IsDeposit[rows[k]]

\* Every candidate of every batch handed to the bulk write.
HandedOver ==
    UNION {{bulk_calls[b][j] : j \in 1..Len(bulk_calls[b])} : b \in 1..Len(bulk_calls)}

\* C15: every candidate handed to the bulk write has an amount strictly
\* greater than 0, a non-empty description and a transaction_date at midnight.
C15_CandidatesWellFormed ==
    \A c \in HandedOver :
        /\ GtZero(c.amount)
        /\ c.description # <<>>
        /\ c.transaction_date # NoValue
        /\ c.transaction_date.hh = 0
        /\ c.transaction_date.mi = 0

Classified == call # NoValue /\ call.op = "classify"

\* The description of the stand-alone call as the classifier reads it.
ClassifiedText == _normalize(OrEmpty(call.description))

\* The positions of the table whose keyword occurs in the description.
KeywordHits ==
    {i \in 1..Len(DEFAULT_KEYWORD_TO_CATEGORY) :
        Contains(ClassifiedText, DEFAULT_KEYWORD_TO_CATEGORY[i][1])}

\* C16: when a keyword of the table occurs in the description, the classifier
\* returns the category of the first such keyword in table order, whatever
\* category names the caller supplies.
C16_FirstKeywordWins ==
    (Classified /\ KeywordHits # {}) =>
        \E i \in KeywordHits :
            /\ \A j \in KeywordHits : i <= j
            /\ call.result = DEFAULT_KEYWORD_TO_CATEGORY[i][2]

C16_Witness ==
    /\ Classified
    /\ call.description = Zomato
    /\ call.names = <<<<"U", "P", "I">>, <<"G", "y", "m">>>>
    /\ call.result = <<"F", "o", "o", "d", " ", "&", " ", "D", "i", "n", "i", "n", "g">>

\* The positions of the caller's names whose lowercased text occurs in the
\* lowercased description.
NameHits ==
    {i \in 1..Len(call.names) :
        /\ call.names[i] # <<>>
        /\ Contains(LowerStr(OrEmpty(call.description)), LowerStr(call.names[i]))}

\* C17: when no keyword of the table occurs in the description, the classifier
\* returns the first of the caller's names, in the order supplied, whose
\* lowercased text is a substring of the lowercased description, and null when
\* there is none.
C17_FallbackToFirstNameInText ==
    (Classified /\ KeywordHits = {}) =>
        call.result = IF NameHits = {} THEN None ELSE call.names[FirstOf(NameHits)]

\* Every name a category can carry here, lowercased; evaluated once.
LoweredName ==
    [n \in CategoryCreates \cup
            {DEFAULT_KEYWORD_TO_CATEGORY[i][2] : i \in 1..Len(DEFAULT_KEYWORD_TO_CATEGORY)}
        |-> LowerStr(n)]

\* The user's categories of the current table whose name equals, ignoring
\* case, the keyword category suggested for the k-th row.
CategoriesNamedLike(k) ==
    {i \in 1..Len(categories) :
        /\ categories[i].user_id = request.user_id
        /\ LoweredName[categories[i].name] = LoweredName[Facts(k).by_keyword]}

\* C18: with create_missing_categories unset an import creates no category,
\* and an accepted row whose suggested name is the name of no category of the
\* user is imported with no category.
C18_NoCategoryCreatedWithoutFlag ==
    (request # NoValue /\ ~request.create_missing_categories) =>
        /\ categories = before.categories
        /\ \A k \in Processed :
              (/\ row_outcomes[k].verdict = Accepted
               /\ Facts(k).by_keyword # None
               /\ CategoriesNamedLike(k) = {}) =>
                  row_outcomes[k].candidate.category_id = 0

C18_Witness ==
    /\ Returned
    /\ ~request.create_missing_categories
    /\ categories # <<>>
    /\ categories[1].user_id # request.user_id
    /\ response.created_count = 2
    /\ \A k \in Processed :
          Facts(k).by_keyword # None /\ row_outcomes[k].candidate.category_id = 0

\* The transactions this import has written, by position in the table.
Written == (Len(before.transactions) + 1)..Len(transactions)

\* C19: two identical rows of one file, with no matching record stored before
\* the import, are both accepted and both written even with skip_duplicates.
C19_IdenticalRowsBothWritten ==
    (Returned /\ request.skip_duplicates) =>
        \A j \in Processed, k \in Processed :
            (/\ j < k
             /\ rows[j] = rows[k]
             /\ ReachesDuplicateFilter(k)
             /\ StoredMatches(k) = {}) =>
                /\ row_outcomes[j].verdict = Accepted
                /\ row_outcomes[k].verdict = Accepted
                /\ \E a \in Written, b \in Written :
                      /\ a < b
                      /\ transactions[a] =
                            Transaction(row_outcomes[j].candidate, request.user_id)
                      /\ transactions[b] =
                            Transaction(row_outcomes[k].candidate, request.user_id)

C19_Witness ==
    /\ Returned
    /\ request.skip_duplicates
    /\ Len(rows) = 2
    /\ rows[1] = rows[2]
    /\ AmountResolves(2)
    /\ before.transactions # <<>>
    /\ response.created_count = 2
    /\ response.created[1] = response.created[2]

Exploded == call # NoValue /\ call.op = "explode"

\* The lines of the date cell of the merged row that are not blank, as they
\* stand in the cell.
DateLinesOfCell ==
    IF call.row.date = None THEN <<>>
    ELSE SelectSeq(Split(call.row.date, "\n"), LAMBDA l : Strip(l) # <<>>)

\* C20: reconstruction yields one canonical row per non-blank line of the
\* date cell, the i-th row carrying the i-th such line, and no row when the
\* date cell has no such line.
C20_OneRowPerDateLine ==
    Exploded =>
        /\ Len(call.result) = Len(DateLinesOfCell)
        /\ \A i \in 1..Len(call.result) : call.result[i].date = Strip(DateLinesOfCell[i])

C20_Witness ==
    /\ Exploded
    /\ call.row.date = Cell(<<<<" ", "0", "2", "/", "0", "1", "/", "2", "0", "2", "4", " ">>, <<"0", "1", "/", "0", "1", "/", "2", "0", "2", "4">>>>)
    /\ call.row.description = <<>>
    /\ call.row.debit = None
    /\ Len(call.result) = 2
    /\ call.result[1].date = <<"0", "2", "/", "0", "1", "/", "2", "0", "2", "4">>
    /\ call.result[2].date = <<"0", "1", "/", "0", "1", "/", "2", "0", "2", "4">>

\* The lines of the description cell of the merged row that are not blank,
\* trimmed.
DescriptionLinesOfCell ==
    IF call.row.description = None THEN <<>>
    ELSE LET kept == SelectSeq(Split(call.row.description, "\n"), LAMBDA l : Strip(l) # <<>>)
         IN [j \in 1..Len(kept) |-> Strip(kept[j])]

\* C21: with N reconstructed rows and lines_per_transaction =
\* max(1, floor(description lines / N)), the i-th row's description is the
\* i-th run of lines_per_transaction description lines joined with single
\* blanks (empty past the last line), and every description line lies in the
\* run of one of the N rows.
C21_DescriptionLinesPartitioned ==
    Exploded /\ call.result # <<>> =>
        LET lines == DescriptionLinesOfCell
            N == Len(call.result)
            lines_per_transaction == Max(1, Len(lines) \div N)
        IN /\ \A i \in 1..N :
                 call.result[i].description =
                     Join(SubSeq(lines, (i - 1) * lines_per_transaction + 1,
                                 Min(i * lines_per_transaction, Len(lines))), " ")
           /\ \A j \in 1..Len(lines) :
                 \E i \in 1..N : /\ (i - 1) * lines_per_transaction < j
                                 /\ j <= i * lines_per_transaction

\* The trimmed, non-blank lines of a cell of the merged row.
LinesOfCell(cell) ==
    IF cell = None THEN <<>>
    ELSE LET kept == SelectSeq(Split(cell, "\n"), LAMBDA l : Strip(l) # <<>>)
         IN [j \in 1..Len(kept) |-> Strip(kept[j])]

\* How many of the rows before the i-th carry a debit, and a credit.
DebitsBefore(i) == Cardinality({j \in 1..(i - 1) : call.result[j].debit # None})
CreditsBefore(i) == Cardinality({j \in 1..(i - 1) : call.result[j].credit # None})

LooksDebit(i) ==
    \E m \in DebitMarkers : Contains(UpperStr(call.result[i].description), m)

\* The i-th reconstructed row got its value by the rule: the next unused line
\* of the list it prefers, else the next unused debit line, else the next
\* unused credit line, else nothing.
AssignedByRule(i, prefers_debit, prefers_credit) ==
    LET debits == LinesOfCell(call.row.debit)
        credits == LinesOfCell(call.row.credit)
        debit_left == DebitsBefore(i) < Len(debits)
        credit_left == CreditsBefore(i) < Len(credits)
        preferred == (prefers_debit /\ debit_left) \/ (prefers_credit /\ credit_left)
        takes_debit == (prefers_debit /\ debit_left) \/ (~preferred /\ debit_left)
        takes_credit == (prefers_credit /\ credit_left)
                            \/ (~preferred /\ ~debit_left /\ credit_left)
    IN /\ call.result[i].debit = IF takes_debit THEN debits[DebitsBefore(i) + 1] ELSE None
       /\ call.result[i].credit = IF takes_credit THEN credits[CreditsBefore(i) + 1] ELSE None

\* C22 as stated: a row whose uppercased description holds a debit marker
\* prefers the debit lines and every other row prefers the credit lines.
C22_MarkerElseCredit ==
    Exploded =>
        \A i \in 1..Len(call.result) : AssignedByRule(i, LooksDebit(i), ~LooksDebit(i))

\* C22: a row whose uppercased description holds a debit marker prefers the
\* debit lines, a row with any other non-empty description prefers the credit
\* lines, and a row with an empty description prefers neither: it takes the
\* next unused debit line, else the next unused credit line.
C22_EmptyDescriptionPrefersNeither ==
    Exploded =>
        \A i \in 1..Len(call.result) :
            AssignedByRule(i, LooksDebit(i),
                           ~LooksDebit(i) /\ call.result[i].description # <<>>)

C22_Witness ==
    /\ Exploded
    /\ Len(call.result) = 2
    /\ LooksDebit(1)
    /\ call.result[1].debit = <<"1", "0", "0">>
    /\ call.result[2].description = <<>>
    /\ call.result[2].debit = <<"3", "0", "0">>
    /\ call.result[2].credit = None
    /\ LinesOfCell(call.row.credit) # <<>>

\* C29: the debits of the reconstructed rows are the debit lines of the merged
\* row taken once each from the first on, likewise the credits; no row carries
\* both; a row carries neither only when every debit line and every credit
\* line went to an earlier row; so min(N, debit lines + credit lines) rows
\* carry an amount.
C29_EachLineAssignedOnce ==
    Exploded =>
        LET debits == LinesOfCell(call.row.debit)
            credits == LinesOfCell(call.row.credit)
            N == Len(call.result)
            carrying == {i \in 1..N : call.result[i].debit # None \/ call.result[i].credit # None}
        IN /\ \A i \in 1..N :
                 /\ call.result[i].debit # None =>
                        /\ DebitsBefore(i) < Len(debits)
                        /\ call.result[i].debit = debits[DebitsBefore(i) + 1]
                 /\ call.result[i].credit # None =>
                        /\ CreditsBefore(i) < Len(credits)
                        /\ call.result[i].credit = credits[CreditsBefore(i) + 1]
                 /\ call.result[i].debit = None \/ call.result[i].credit = None
                 /\ call.result[i].debit = None /\ call.result[i].credit = None =>
                        /\ DebitsBefore(i) = Len(debits)
                        /\ CreditsBefore(i) = Len(credits)
           /\ Cardinality(carrying) = Min(N, Len(debits) + Len(credits))

C29_Witness ==
    /\ Exploded
    /\ call.row.debit = <<"1", "0", "0">>
    /\ call.row.credit = None
    /\ Len(call.result) = 2
    /\ call.result[1].debit = <<"1", "0", "0">>
    /\ call.result[1].credit = None
    /\ call.result[2].debit = None
    /\ call.result[2].credit = None

\* The columns (counted from 1) whose normalized cell contains a candidate.
MatchingColumns(adapter, field, header) ==
    {i \in 1..Len(header) :
        \E c \in 1..Len(candidates_of(adapter, field)) :
            Contains(NormalizedCell(adapter, header[i]), candidates_of(adapter, field)[c])}

\* Header matching finds a column for the field in the matched header.
FoundByHeader(field) == MatchingColumns(call.adapter, field, call.header) # {}

PositionalIndex == [date |-> 0, description |-> 1, ref |-> 2, debit |-> 4, credit |-> 5]

MatchedPdf == Matched /\ call.adapter = "pdf"

\* C25 as stated: in a PDF table of at least 6 columns whose header gives
\* neither a debit nor a credit column, the five fields sit at columns
\* 0, 1, 2, 4, 5; in a table of fewer than 6 columns a field the header does
\* not give has no column.
C25_PositionalMapping ==
    MatchedPdf =>
        /\ (/\ ~FoundByHeader("debit")
            /\ ~FoundByHeader("credit")
            /\ Len(call.header) >= 6)
              => \A field \in DOMAIN PositionalIndex :
                     call.columns[field] = Index(PositionalIndex[field])
        /\ Len(call.header) < 6
              => \A field \in DOMAIN PositionalIndex :
                     ~FoundByHeader(field) => call.columns[field] = NoValue

\* C25: the positional mapping applies when the header gives no debit column
\* and the table has at least 6 columns, whether or not it gives a credit
\* column; then each of the five fields the header does not give sits at its
\* position among 0, 1, 2, 4, 5, and a field the header gives keeps the
\* column the header gives.  In every other table a field the header does
\* not give has no column.
C25_PositionalWhereHeaderGivesNone ==
    MatchedPdf =>
        LET positional == ~FoundByHeader("debit") /\ Len(call.header) >= 6
        IN \A field \in DOMAIN PositionalIndex :
               IF FoundByHeader(field)
               THEN /\ call.columns[field] # NoValue
                    /\ call.columns[field].i + 1
                           \in MatchingColumns("pdf", field, call.header)
               ELSE call.columns[field] =
                        IF positional THEN Index(PositionalIndex[field]) ELSE NoValue

C25_Witness ==
    /\ MatchedPdf
    /\ call.header = << <<>>, <<>>, <<>>, <<"V", "a", "l", "u", "e", " ", "D", "t">>, <<>>, <<"D", "e", "p", "o", "s", "i", "t", " ", "A", "m", "t", ".">> >>
    /\ call.columns.date = Index(3)
    /\ call.columns.description = Index(1)
    /\ call.columns.ref = Index(2)
    /\ call.columns.debit = Index(4)
    /\ call.columns.credit = Index(5)

\* C30: in a matched header no two of the seven fields are mapped to the same
\* column.
C30_FieldsOnDistinctColumns ==
    Matched =>
        \A f \in Fields, g \in Fields :
            f # g /\ call.columns[f] # NoValue => call.columns[f] # call.columns[g]

ParsedPdf == call # NoValue /\ call.op = "pdf"

\* The data rows of the document's tables in page, table and row order,
\* without the decorative ones.
DataRowsInOrder ==
    SelectSeq(Concat([p \in 1..Len(call.pages) |->
                  Concat([k \in 1..Len(call.pages[p]) |->
                      IF call.pages[p][k] = <<>> THEN <<>> ELSE Tail(call.pages[p][k])])]),
              LAMBDA raw : \E c \in 1..Len(raw) : Strip(OrEmpty(raw[c])) # <<>>)

\* The dates a data row stands for: its date cell, or the lines of its date
\* cell when it is a merged row.
DatesOfRaw(raw) ==
    IF \E c \in 1..Len(raw) : raw[c] # None /\ Contains(raw[c], <<"\n">>)
    THEN LinesOfCell(raw[1])
    ELSE <<raw[1]>>

\* C23: the dates of the adapter's output are the dates of the document's
\* data rows in page, table and row order, a merged row standing for its date
\* lines in their order at the place of the merged row.
C23_OutputInSourceOrder ==
    ParsedPdf =>
        [i \in 1..Len(call.result) |-> call.result[i].date]
            = Concat([k \in 1..Len(DataRowsInOrder) |-> DatesOfRaw(DataRowsInOrder[k])])

C23_Witness ==
    /\ ParsedPdf
    /\ Len(call.pages[1][1]) = 3
    /\ call.pages[1][2] = <<>>
    /\ Len(call.pages[2][1]) = 2
    /\ Len(call.result) = 4
    /\ call.result[1].date = <<"0", "3", "/", "0", "1", "/", "2", "0", "2", "4">>
    /\ call.result[2].date = <<"0", "1", "/", "0", "1", "/", "2", "0", "2", "4">>
    /\ call.result[3].date = <<"0", "2", "/", "0", "1", "/", "2", "0", "2", "4">>
    /\ call.result[4].date = <<"0", "3", "/", "0", "1", "/", "2", "0", "2", "4">>

ParsedCsv == call # NoValue /\ call.op = "csv"

\* The lines of the parsed file.
LinesOfFile == Split(call.text, "\n")

\* The first line of the file that is not empty, 0 when every line is.
FirstNonEmptyLine == FirstOf({k \in 1..Len(LinesOfFile) : LinesOfFile[k] # <<>>})

\* C24: the header is the first non-empty line of the file: the result is
\* what the lines after that line give under the columns detected in it, and
\* nothing when the file has no non-empty line.
C24_FirstNonEmptyLineIsHeader ==
    ParsedCsv =>
        call.result =
            IF FirstNonEmptyLine = 0 THEN <<>>
            ELSE csv_rows(Split(LinesOfFile[FirstNonEmptyLine], ","),
                          [k \in 1..(Len(LinesOfFile) - FirstNonEmptyLine) |->
                              IF LinesOfFile[FirstNonEmptyLine + k] = <<>> THEN <<>>
                              ELSE Split(LinesOfFile[FirstNonEmptyLine + k], ",")])

ParsedDate == call # NoValue /\ call.op = "date"

\* The patterns in the order the claim gives them.
PatternsInOrder ==
    << [sep |-> "/", order |-> "dmY"],
       [sep |-> "-", order |-> "dmY"],
       [sep |-> "-", order |-> "Ymd"],
       [sep |-> "/", order |-> "mdY"],
       [sep |-> " ", order |-> "dbY"],
       [sep |-> " ", order |-> "dBY"] >>

\* The trimmed token, and the patterns that match it.
ParsedToken == IF call.value = None THEN None ELSE Strip(call.value)
MatchingPatterns ==
    IF call.value = None THEN {}
    ELSE {i \in 1..Len(PatternsInOrder) : Strptime(ParsedToken, PatternsInOrder[i]) # NoValue}

\* The result is that of the first matching pattern, at midnight.
FirstPatternDecides ==
    MatchingPatterns # {} =>
        /\ call.result = Strptime(ParsedToken, PatternsInOrder[FirstOf(MatchingPatterns)])
        /\ call.result.hh = 0 /\ call.result.mi = 0

\* The two tokens the claim names: day-first for an ambiguous token, and
\* 31 January 2024 for "31/01/2024".
NamedTokens ==
    /\ call.value = <<"0", "1", "/", "1", "2", "/", "2", "0", "2", "4">> => call.result = Date(2024, 12, 1)
    /\ call.value = <<"3", "1", "/", "0", "1", "/", "2", "0", "2", "4">> => call.result = Date(2024, 1, 31)

\* C26 as stated: the first matching pattern decides, and a token that
\* matches no pattern gives no date.
C26_NoPatternNoDate ==
    ParsedDate =>
        /\ FirstPatternDecides
        /\ NamedTokens
        /\ MatchingPatterns = {} => call.result = NoValue

\* C26: the first matching pattern decides; a token that matches no pattern
\* is read as an ISO date or date-time and gives that day at midnight, and
\* gives no date only when it is no ISO date or date-time either.
C26_NoPatternThenIso ==
    ParsedDate =>
        /\ FirstPatternDecides
        /\ NamedTokens
        /\ MatchingPatterns = {} =>
               call.result = IF call.value = None THEN NoValue ELSE FromIsoFormat(ParsedToken)

C26_Witness ==
    /\ ParsedDate
    /\ call.value = <<"0", "1", "/", "1", "2", "/", "2", "0", "2", "4">>
    /\ MatchingPatterns = {1, 4}
    /\ call.result = Date(2024, 12, 1)

CheckedExists == call # NoValue /\ call.op = "exists"

\* The stored records that match the query: same user, same description up
\* to case, equal amount and equal date.
MatchingRecords ==
    {i \in 1..Len(call.txs) :
        /\ call.txs[i].user_id = call.query.user_id
        /\ LowerStr(call.txs[i].description) = LowerStr(call.query.description)
        /\ call.txs[i].amount = call.query.amount
        /\ call.txs[i].transaction_date = call.query.transaction_date}

\* C28: transaction_exists does not fail, and returns true exactly when at
\* least one stored record matches, however many match.
C28_TrueIffSomeRecordMatches ==
    CheckedExists =>
        /\ call.found.k # "raise"
        /\ call.found.k = "one" <=> MatchingRecords # {}

\* The stored transactions of the importing user that match the k-th row of
\* the file in description (up to case), amount and date.
PersistedLike(k) ==
    {i \in 1..Len(transactions) :
        /\ transactions[i].user_id = request.user_id
        /\ LowerStr(transactions[i].description) = LowerStr(Facts(k).description)
        /\ transactions[i].amount = Facts(k).amount
        /\ transactions[i].transaction_date = Facts(k).dt}

\* Both requests for the same file have returned their results.
BothDone == pc = "done" /\ second # NoValue /\ second.pc = "done"

\* C27: when two requests of the same user for the same file, both with
\* skip_duplicates, have run side by side to their end, every row of the
\* file that stands for a transaction has at most one persisted transaction
\* like it; stated for files whose rows differ from each other.
C27_ConcurrentImportsPersistOnce ==
    (BothDone /\ \A j \in 1..Len(rows), k \in 1..Len(rows) : j # k => rows[j] # rows[k]) =>
        \A k \in 1..Len(rows) :
            ReachesDuplicateFilter(k) => Cardinality(PersistedLike(k)) <= 1

====
